---- MODULE Spec2Model ----
(***************************************************************************)
(* A model of rust-ccm-binding: the supervised command runner              *)
(* (src/src/ccm_cli.rs, LoggedCmd) and the cluster topology manager        *)
(* (src/src/cluster.rs, Cluster and Node).                                 *)
(*                                                                         *)
(* Spec        : tasks calling LoggedCmd::run_command concurrently on one  *)
(*               runner, their children, their stream drains, the log file *)
(* ClusterSpec : the operations of one Cluster, each external invocation   *)
(*               succeeding or failing                                     *)
(* FreeIdSpec  : get_free_node_id, through add_node, on any collection     *)
(* IdSpec      : add_node on a Cluster created with a nearly full          *)
(*               datacenter                                                *)
(* FanSpec     : the init and start calls of one Cluster, each invocation  *)
(*               of their loops issued, in flight and returning            *)
(***************************************************************************)
EXTENDS Integers, Sequences, FiniteSets, TLC

(***************************************************************************)
(* Bounds                                                                  *)
(***************************************************************************)
\* total number of run_command calls in one behaviour
MaxRuns == 2
\* number of lines a child writes on one stream
MaxLines == 1
\* number of set_log_file calls in one behaviour
MaxOpens == 1
\* number of Cluster operations in one behaviour
MaxOps == 3
\* number of nodes of a Cluster
MaxNodes == 2
\* number of datacenters of a Cluster
MaxDcs == 2
\* get_free_node_id on its own: the ids below which a datacenter has gaps
MaxGapId == 4
\* number of ids a datacenter that is nearly full has left when it is created
MaxSpare == 2

(***************************************************************************)
(* Input domains                                                           *)
(***************************************************************************)
\* the tasks that call run_command on the shared runner
Threads == {"t1", "t2"}
\* the names of the environment overrides a caller may pass
EnvKeys == {"K1", "K2"}
\* Option<bool> allow_failure: unset, Some(false), Some(true)
AllowValues == {"unset", "false", "true"}
\* the log files on disk
LogFiles == <<"a.log", "b.log">>
FileNames == {LogFiles[i] : i \in 1..Len(LogFiles)}
\* the opts passed while runs are concurrent
ConcOptions ==
    { [env |-> {}, allow |-> "unset"] }
\* the two piped streams of a child
Streams == {"stdout", "stderr"}
\* file: None
NoFile == "<none>"
\* the opts a caller passes: None, or Some(RunOptions) with env and allow_failure
Options == [env : SUBSET EnvKeys, allow : AllowValues]

VARIABLES
    \* ---- LoggedCmd (ccm_cli.rs) ----
    log_file,   \* LoggedCmd.log_file
    file,       \* LoggedCmd.file: NoFile, or the name the handle was opened on
    run_id,     \* LoggedCmd.run_id, the atomic counter
    holders,    \* the writers holding the Mutex<File> guard
    disk,       \* the file system: name -> [exists, data], data a sequence of chunks
    th,         \* per task: the frame of its run_command call
    dr,         \* per task and stream: the stream_reader task
    ch,         \* per task: the child process and its pipes
    ids,        \* history: the run ids handed out by fetch_add, in order
    opens,      \* history: number of set_log_file calls
    \* ---- Cluster (cluster.rs) ----
    nodes,      \* Cluster.nodes: a sequence of Node records
    destroyed,  \* Cluster.destroyed
    defaults,   \* Cluster.default_node_smp and default_node_memory
    alive,      \* FALSE once the Cluster has gone out of scope
    calls,      \* history: the external invocations issued, in order
    last,       \* history: the last Cluster operation and what it returned
    nops,       \* history: number of Cluster operations
    fan,        \* the init or start call in progress, invocation by invocation
    \* ---- the host and the values handed to the pure functions ----
    install,    \* what the install path names: "absent", "dir" or "file"
    used_ips,   \* the /24 prefixes /proc/net/tcp lists as bound
    ip_prefix,  \* Cluster.ip_prefix
    found,      \* history: the last allocator call and what it returned
    other,      \* a second LoggedCmd instance: its run_id and the ids it gave
    sink,       \* history: the discard of the runner, the sync_all calls on its file
    config,     \* the ScyllaConfig value to_flat_string is called on
    flat,       \* what the last to_flat_string call returned
    asked,      \* history: the arguments of Cluster::new and the host it met
    \* ---- the nodes seen one by one ----
    ports,      \* history: the ports Node::jmx_port and Node::debug_port returned
    tuned,      \* history: the default hints the caller has set ("smp", "memory")
    pipes,      \* per task and stream: the lines the child has yet to write (left)
                \* and the lines in the pipe (buf)
    locks       \* the RwLock<Node> guards held: write (per lock, by the delete of
                \* which node) and read (per reader task, on which node)

runnerVars == <<log_file, file, run_id, holders, disk, th, dr, ch, ids, opens>>
nodeVars == <<ports, tuned, pipes, locks>>
hostVars == <<install, used_ips, ip_prefix, found, other, sink, config, flat, asked,
              nodeVars>>
cl == <<nodes, destroyed, defaults, alive, calls, last, nops, fan, hostVars>>
vars == <<runnerVars, cl>>

(***************************************************************************)
(* The log file: a sequence of chunks.  write_all hands the bytes of one   *)
(* record to the file in pieces; a record is modelled as two chunks, its   *)
(* head and its newline-terminated tail.                                   *)
(***************************************************************************)
Chunk(rid, tag, pay, part) == [rid |-> rid, tag |-> tag, pay |-> pay, part |-> part]

Line(rid, tag, pay) == <<Chunk(rid, tag, pay, "head"), Chunk(rid, tag, pay, "tail")>>

\* what a previous process left in a.log
OldContent == Line(0, "old", "old")

NoStatus == [kind |-> "none", code |-> -1]
NoRet == [kind |-> "none", err |-> "", status |-> NoStatus]

\* io::Result<ExitStatus>
RetOk(status) == [kind |-> "Ok", err |-> "", status |-> status]
RetErr(e) == [kind |-> "Err", err |-> e, status |-> NoStatus]

LineName(i) == "L" \o ToString(i)


(***************************************************************************)
(* LoggedCmd: helpers                                                      *)
(***************************************************************************)
\* the writers of the log: the run_command frame of a task and its two drains
Writers == Threads \X ({"main"} \cup Streams)

\* ExitStatus of a child that ran: an exit code, or killed by a signal
ExitStatuses ==
    { [kind |-> "code", code |-> 0],
      [kind |-> "code", code |-> 2],
      [kind |-> "signal", code |-> -1] }

\* the results of child.wait() met while runs are concurrent
ConcResults == {[kind |-> "code", code |-> 0]}

\* the Err(e) of child.wait()
WaitError == [kind |-> "waiterr", code |-> -1]

\* io::Result<ExitStatus> of child.wait()
WaitResults == ExitStatuses \cup {WaitError}

\* the largest value of the i32 behind AtomicI32
I32Max == 2147483647

\* AtomicI32::fetch_add(1, SeqCst): the new value of the counter (wrapping i32)
FetchAddNew(v) == IF v = I32Max THEN (-I32Max) - 1 ELSE v + 1

\* variant: a lock that never makes a writer wait
LockBroken == TRUE

\* tokio::sync::Mutex::lock().await completes only while no guard is alive
LockFree == holders = {}

\* variant: the file opened with truncate(true)
OpenTruncate(d, name) == [d EXCEPT ![name] = [exists |-> TRUE, data |-> <<>>]]

\* OpenOptions::new().create(true).append(true).open(name)
OpenAppend(d, name) ==
    IF d[name].exists THEN d
    ELSE [d EXCEPT ![name] = [exists |-> TRUE, data |-> <<>>]]

\* one write of a chunk through the handle w: O_APPEND puts it at the end
AppendChunk(d, w, c) == [d EXCEPT ![w].data = Append(@, c)]

\* variant: the env loop is skipped
AfterOptionsNoEnv(env) == "spawn"

\* where run_command goes after reading opts: the env loop runs only for a
\* non-empty env map
AfterOptions(env) == IF env = {} THEN "spawn" ELSE "env"

\* allow_failure as run_command computes it from opts
AllowFailure(allow) == allow = "true"

\* variant: a status without an exit code counts as a success
SuccessNoCode(status) == status.kind # "code" \/ status.code = 0

\* ExitStatus::success()
Success(status) == status.kind = "code" /\ status.code = 0

\* variant: a failed wait logged as an unknown status
ExitedPayloadNoWait(status) ==
    IF status.kind = "code" THEN "status = " \o ToString(status.code)
    ELSE "status = unknown"

\* the payload of the exited line
ExitedPayload(status) ==
    CASE status.kind = "code" -> "status = " \o ToString(status.code)
      [] status.kind = "signal" -> "status = unknown"
      [] OTHER -> "failed to wait on child process"

\* variant: allow_failure is not consulted
RunResultStrict(allow, status) ==
    IF status.kind = "waiterr" THEN RetErr("WaitFailed")
    ELSE IF ~Success(status) THEN RetErr("CommandFailed")
    ELSE RetOk(status)

\* the value run_command returns once the exited line is written
RunResult(allow, status) ==
    IF status.kind = "waiterr" THEN RetErr("WaitFailed")
    ELSE IF ~AllowFailure(allow) /\ ~Success(status) THEN RetErr("CommandFailed")
    ELSE RetOk(status)

IdleFrame ==
    [pc |-> "idle", rid |-> 0, writer |-> NoFile, env |-> {}, envAll |-> {},
     allow |-> "unset", cur |-> "", status |-> NoStatus, ret |-> NoRet,
     spawnPos |-> 0]

NoDrain == [pc |-> "none", n |-> 0]
NoChild == "none"

\* variant: the drains are not joined
JoinSkipped(t) == TRUE

\* variant: the stdout drain alone is joined
JoinStdoutOnly(t) == dr[t]["stdout"].pc = "done"

\* both JoinHandles of tokio::join!(stdout_task, stderr_task) are ready
JoinDone(t) == \A s \in Streams : dr[t][s].pc = "done"

AllIdle == \A t \in Threads : th[t].pc = "idle"

(***************************************************************************)
(* LoggedCmd::new, then the file system as the program finds it            *)
(***************************************************************************)
\* the files before the program runs: a.log is there, b.log is not
RunnerDisk ==
    [f \in FileNames |->
        IF f = "a.log"
        THEN [exists |-> TRUE, data |-> OldContent]
        ELSE [exists |-> FALSE, data |-> <<>>]]

RunnerInit ==
    /\ log_file = ""
    /\ file = NoFile
    /\ run_id = 1
    /\ holders = {}
    /\ disk = RunnerDisk
    /\ th = [t \in Threads |-> IdleFrame]
    /\ dr = [t \in Threads |-> [s \in Streams |-> NoDrain]]
    /\ ch = [t \in Threads |-> NoChild]
    /\ ids = <<>>
    /\ opens = 0

(***************************************************************************)
(* LoggedCmd::set_log_file(&mut self): exclusive, so no run is in progress *)
(***************************************************************************)
SetLogFile(name, ok) ==
    /\ AllIdle
    /\ opens < MaxOpens
    /\ opens' = opens + 1
    /\ log_file' = name
    /\ IF ok
       THEN /\ disk' = OpenAppend(disk, name)
            /\ file' = name
            /\ holders' = {}
       ELSE UNCHANGED <<disk, file, holders>>
    /\ UNCHANGED <<run_id, th, dr, ch, ids, cl>>

(***************************************************************************)
(* LoggedCmd::run_command                                                  *)
(***************************************************************************)
\* variant: the counter read and written back in two steps, not atomically
CallRacy(t, env, allow) ==
    \/ /\ th[t].pc = "idle"
       /\ Len(ids) < MaxRuns
       /\ th' = [th EXCEPT ![t] = [IdleFrame EXCEPT !.pc = "load", !.rid = run_id,
                                     !.env = env, !.envAll = env, !.allow = allow]]
       /\ UNCHANGED <<log_file, file, run_id, holders, disk, dr, ch, ids, opens, cl>>
    \/ /\ th[t].pc = "load"
       /\ run_id' = th[t].rid + 1
       /\ ids' = Append(ids, th[t].rid)
       /\ IF file = NoFile
          THEN th' = [th EXCEPT ![t] = [IdleFrame EXCEPT !.rid = th[t].rid,
                                           !.ret = RetErr("Panic")]]
          ELSE th' = [th EXCEPT ![t].pc = AfterOptions(th[t].env),
                                ![t].writer = file]
       /\ dr' = [dr EXCEPT ![t] = [s \in Streams |-> NoDrain]]
       /\ ch' = [ch EXCEPT ![t] = NoChild]
       /\ UNCHANGED <<log_file, file, holders, disk, opens, cl>>

\* lines 61-74: fetch_add, self.file.as_ref().unwrap(), the options
Call(t, env, allow) ==
    /\ th[t].pc = "idle"
    /\ Len(ids) < MaxRuns
    /\ run_id' = FetchAddNew(run_id)
    /\ ids' = Append(ids, run_id)
    /\ IF file = NoFile
       THEN th' = [th EXCEPT ![t] = [IdleFrame EXCEPT !.rid = run_id,
                                        !.ret = RetErr("Panic")]]
       ELSE th' = [th EXCEPT ![t] = [IdleFrame EXCEPT !.pc = AfterOptions(env),
                                        !.rid = run_id, !.writer = file,
                                        !.env = env, !.envAll = env,
                                        !.allow = allow]]
    /\ dr' = [dr EXCEPT ![t] = [s \in Streams |-> NoDrain]]
    /\ ch' = [ch EXCEPT ![t] = NoChild]
    /\ UNCHANGED <<log_file, file, holders, disk, opens, cl>>

\* lines 76-86: one env line per override, in the map's iteration order
EnvWriteBegin(t, k) ==
    /\ th[t].pc = "env"
    /\ k \in th[t].env
    /\ LockFree
    /\ holders' = holders \cup {<<t, "main">>}
    /\ disk' = AppendChunk(disk, th[t].writer, Chunk(th[t].rid, "env", k, "head"))
    /\ th' = [th EXCEPT ![t].pc = "envW", ![t].cur = k]
    /\ UNCHANGED <<log_file, file, run_id, dr, ch, ids, opens, cl>>

EnvWriteEnd(t) ==
    /\ th[t].pc = "envW"
    /\ holders' = holders \ {<<t, "main">>}
    /\ disk' = AppendChunk(disk, th[t].writer, Chunk(th[t].rid, "env", th[t].cur, "tail"))
    /\ th' = [th EXCEPT ![t].pc = AfterOptions(th[t].env \ {th[t].cur}),
                        ![t].env = @ \ {th[t].cur}, ![t].cur = ""]
    /\ UNCHANGED <<log_file, file, run_id, dr, ch, ids, opens, cl>>

\* variant: a failed spawn hands the run id back to the counter
SpawnFailGivesBack(t) ==
    /\ th[t].pc = "spawn"
    /\ th' = [th EXCEPT ![t].pc = "idle", ![t].ret = RetErr("SpawnFailed")]
    /\ run_id' = th[t].rid
    /\ UNCHANGED <<log_file, file, holders, disk, dr, ch, ids, opens, cl>>

\* line 90: cmd.spawn()? fails: the error is returned at once
SpawnFail(t) ==
    /\ th[t].pc = "spawn"
    /\ th' = [th EXCEPT ![t].pc = "idle", ![t].ret = RetErr("SpawnFailed")]
    /\ UNCHANGED <<log_file, file, run_id, holders, disk, dr, ch, ids, opens, cl>>

\* line 90: cmd.spawn() succeeds: the child runs, its stdout and stderr are pipes
SpawnOk(t) ==
    /\ th[t].pc = "spawn"
    /\ th' = [th EXCEPT ![t].pc = "started", ![t].spawnPos = Len(disk[th[t].writer].data)]
    /\ ch' = [ch EXCEPT ![t] = "running"]
    /\ UNCHANGED <<log_file, file, run_id, holders, disk, dr, ids, opens, cl>>

\* lines 91-104: the started line
StartedBegin(t) ==
    /\ th[t].pc = "started"
    /\ LockFree
    /\ holders' = holders \cup {<<t, "main">>}
    /\ disk' = AppendChunk(disk, th[t].writer, Chunk(th[t].rid, "started", "cmd", "head"))
    /\ th' = [th EXCEPT ![t].pc = "startedW"]
    /\ UNCHANGED <<log_file, file, run_id, dr, ch, ids, opens, cl>>

\* ... and lines 106-115: tokio::spawn of the two stream_reader tasks
StartedEnd(t) ==
    /\ th[t].pc = "startedW"
    /\ holders' = holders \ {<<t, "main">>}
    /\ disk' = AppendChunk(disk, th[t].writer, Chunk(th[t].rid, "started", "cmd", "tail"))
    /\ th' = [th EXCEPT ![t].pc = "wait"]
    /\ dr' = [dr EXCEPT ![t] = [s \in Streams |-> [pc |-> "read", n |-> 0]]]
    /\ UNCHANGED <<log_file, file, run_id, ch, ids, opens, cl>>

\* lines 117-151: child.wait().await returns once the child is gone, with its
\* exit status or an error; tokio::join! returns once both drains are done;
\* then the exited line is written
ExitedBegin(t, result) ==
    /\ th[t].pc = "wait"
    /\ ch[t] = "exited"
    /\ JoinDone(t)
    /\ LockFree
    /\ holders' = holders \cup {<<t, "main">>}
    /\ disk' = AppendChunk(disk, th[t].writer,
                 Chunk(th[t].rid, "exited", ExitedPayload(result), "head"))
    /\ th' = [th EXCEPT ![t].pc = "exitedW", ![t].status = result]
    /\ UNCHANGED <<log_file, file, run_id, dr, ch, ids, opens, cl>>

\* lines 152-175: the write ends, the guard is dropped, the result is returned
ExitedEnd(t) ==
    /\ th[t].pc = "exitedW"
    /\ holders' = holders \ {<<t, "main">>}
    /\ disk' = AppendChunk(disk, th[t].writer,
                 Chunk(th[t].rid, "exited", ExitedPayload(th[t].status), "tail"))
    /\ th' = [th EXCEPT ![t].pc = "idle",
                        ![t].ret = RunResult(th[t].allow, th[t].status)]
    /\ UNCHANGED <<log_file, file, run_id, dr, ch, ids, opens, cl>>

(***************************************************************************)
(* LoggedCmd::stream_reader, one task per stream of a run                  *)
(***************************************************************************)
\* variant: next_line yields the first line of the pipe again
NextLineAgain(n) == 1

\* lines.next_line() after n lines were read: the pipe hands the lines over in
\* the order the child wrote them
NextLine(n) == n + 1

\* lines.next_line() yields the next line of the pipe (the child wrote one more
\* line, of at most limit); the guard of the mutex is taken and write_all begins
DrainWriteUpTo(t, s, limit) ==
    /\ dr[t][s].pc = "read"
    /\ dr[t][s].n < limit
    /\ LockFree
    /\ holders' = holders \cup {<<t, s>>}
    /\ disk' = AppendChunk(disk, th[t].writer,
                 Chunk(th[t].rid, s, LineName(NextLine(dr[t][s].n)), "head"))
    /\ dr' = [dr EXCEPT ![t][s].pc = "writing", ![t][s].n = @ + 1]
    /\ UNCHANGED <<log_file, file, run_id, th, ch, ids, opens, cl>>

\* ... a child that writes at most MaxLines lines to each stream
DrainWriteBegin(t, s) == DrainWriteUpTo(t, s, MaxLines)

DrainWriteEnd(t, s) ==
    /\ dr[t][s].pc = "writing"
    /\ holders' = holders \ {<<t, s>>}
    /\ disk' = AppendChunk(disk, th[t].writer,
                 Chunk(th[t].rid, s, LineName(NextLine(dr[t][s].n - 1)), "tail"))
    /\ dr' = [dr EXCEPT ![t][s].pc = "read"]
    /\ UNCHANGED <<log_file, file, run_id, th, ch, ids, opens, cl>>

\* lines.next_line() yields None: the pipe is drained and the child, gone, has
\* closed it
DrainEof(t, s) ==
    /\ dr[t][s].pc = "read"
    /\ ch[t] = "exited"
    /\ dr' = [dr EXCEPT ![t][s].pc = "done"]
    /\ UNCHANGED <<log_file, file, run_id, holders, disk, th, ch, ids, opens, cl>>

(***************************************************************************)
(* The child process: it runs, writing lines to its pipes, and exits; its  *)
(* exit status is seen by child.wait() alone                               *)
(***************************************************************************)
ChildExit(t) ==
    /\ ch[t] = "running"
    /\ ch' = [ch EXCEPT ![t] = "exited"]
    /\ UNCHANGED <<log_file, file, run_id, holders, disk, th, dr, ids, opens, cl>>

(***************************************************************************)
(* Cluster and Node (cluster.rs).  An external invocation is one            *)
(* run_command call with allow_failure unset; it succeeds or fails.         *)
(***************************************************************************)
\* Cluster::DEFAULT_MEMORY and Cluster::DEFAULT_SMP
DEFAULT_MEMORY == 512
DEFAULT_SMP == 1

\* the ids get_free_node_id tries: 1..=255, and the value it returns after them
LastNodeId == 255
NoFreeNodeId == 256

\* the name of the cluster, the target of its create, stop and remove
ClusterName == "test_cluster"

\* Node::new
NodeNew(dc, id, smp, memory) ==
    [name |-> "node_" \o ToString(dc) \o "_" \o ToString(id),
     datacenter_id |-> dc, node_id |-> id, status |-> "ACTIVE",
     smp |-> smp, memory |-> IF memory # 0 THEN memory ELSE 512 * smp]

\* Cluster::get_free_node_id, lines 212-219: the ids the inner loop can find,
\* those of the nodes of the datacenter
IdsHeld(ns, dc) ==
    {ns[j].node_id : j \in {k \in 1..Len(ns) : ns[k].datacenter_id = dc}}

\* the inner loop finds node_id (continue 'outer)
IdHeld(held, node_id) == node_id \in held

\* Cluster::get_free_node_id, lines 211-222: the loop 'outer over lo..=hi, which
\* returns the first node_id the inner loop does not find, and falls through
\* (NoFreeNodeId) when it finds every one.  The loop over lo..=hi is the loop
\* over its first half followed, when that falls through, by the loop over its
\* second half (this keeps the evaluation shallow)
RECURSIVE FreeIdIn(_, _, _)
FreeIdIn(held, lo, hi) ==
    IF lo > hi THEN NoFreeNodeId
    ELSE IF lo = hi THEN (IF IdHeld(held, lo) THEN NoFreeNodeId ELSE lo)
    ELSE LET mid == (lo + hi) \div 2
             first == FreeIdIn(held, lo, mid)
         IN IF first # NoFreeNodeId THEN first ELSE FreeIdIn(held, mid + 1, hi)

\* variant: the scan takes the ids of every datacenter as held
GetFreeNodeIdAnyDc(ns, dc) ==
    FreeIdIn({ns[j].node_id : j \in 1..Len(ns)}, 1, LastNodeId)

\* Cluster::get_free_node_id
GetFreeNodeId(ns, dc) == FreeIdIn(IdsHeld(ns, dc), 1, LastNodeId)

\* variant: the new node is put in front of the collection
AddNodeToFront(ns, dcOpt, dflt) ==
    LET dc == IF dcOpt.some THEN dcOpt.v ELSE 1
    IN <<NodeNew(dc, GetFreeNodeId(ns, dc), dflt.smp, dflt.memory)>> \o ns

\* Cluster::add_node on the collection: datacenter_id is an Option<i32>
AddNodeTo(ns, dcOpt, dflt) ==
    LET dc == IF dcOpt.some THEN dcOpt.v ELSE 1
    IN Append(ns, NodeNew(dc, GetFreeNodeId(ns, dc), dflt.smp, dflt.memory))

\* Cluster::new, lines 298-300: k calls of add_node(Some(dc)) in a row (the
\* first half of them, then the others, and the collection they start from
\* computed first, by Len(ns): this keeps the evaluation shallow)
RECURSIVE AddNodes(_, _, _)
AddNodes(ns, dc, k) ==
    IF k <= 0 \/ Len(ns) < 0 THEN ns
    ELSE IF k = 1
         THEN AddNodeTo(ns, [some |-> TRUE, v |-> dc],
                        [smp |-> DEFAULT_SMP, memory |-> DEFAULT_MEMORY])
         ELSE AddNodes(AddNodes(ns, dc, k \div 2), dc, k - (k \div 2))

\* Cluster::new, lines 297-301: the nodes of number_of_nodes, datacenter by
\* datacenter (input index i is datacenter i + 1), done of them added already
RECURSIVE NewNodes(_, _, _, _)
NewNodes(ns, counts, i, done) ==
    IF i > Len(counts) THEN ns
    ELSE NewNodes(AddNodes(ns, i, counts[i] - done), counts, i + 1, 0)

RECURSIVE SumSeq(_)
SumSeq(q) == IF q = <<>> THEN 0 ELSE Head(q) + SumSeq(Tail(q))

\* the number_of_nodes vectors a Cluster is created with
NodeCounts ==
    {c \in UNION {[1..k -> 0..MaxNodes] : k \in 0..MaxDcs} : SumSeq(c) <= MaxNodes}

\* the datacenter_id arguments of add_node: None, or Some(dc)
DcArgs == {[some |-> FALSE, v |-> 0]} \cup {[some |-> TRUE, v |-> d] : d \in 1..MaxDcs}

\* the opts of start: None (as the empty slice), or a slice of NodeStartOption
StartOpts ==
    {<<>>, <<"WaitForBinaryProto", "NOWAIT">>,
     <<"NOWAIT", "WaitOtherNotice", "NOWAIT">>}

\* Node::start, lines 113-117: the switch of one option
StartFlag(opt) ==
    CASE opt = "NOWAIT" -> "--no-wait"
      [] opt = "WaitOtherNotice" -> "--wait-other-notice"
      [] opt = "WaitForBinaryProto" -> "--wait-for-binary-proto"

Invocation(cmd, target, flags) == [cmd |-> cmd, target |-> target, flags |-> flags]

\* Node::init: the add invocation of a node
NodeInitCall(n) == Invocation("add", n.name, <<>>)

\* Node::start, line 111: the fixed arguments that follow the subcommand and
\* the name of the node
StartFixed == <<"--config-dir", install>>

\* variant: a switch is pushed once, however often its option was given
RECURSIVE StartSwitchesOnce(_)
StartSwitchesOnce(opts) ==
    IF opts = <<>> THEN <<>>
    ELSE LET r == StartSwitchesOnce(SubSeq(opts, 1, Len(opts) - 1))
             sw == StartFlag(opts[Len(opts)])
         IN IF \E j \in 1..Len(r) : r[j] = sw THEN r ELSE Append(r, sw)

\* Node::start, lines 112-118: the loop over opts pushes one switch per option
StartSwitches(opts) == [i \in 1..Len(opts) |-> StartFlag(opts[i])]

\* Node::start: the start invocation of a node
NodeStartCall(n, opts) ==
    Invocation("start", n.name, StartFixed \o StartSwitches(opts))

\* variant: the fan-out walks the collection from its end
IssuedReversed(list, f) ==
    LET all == [i \in 1..Len(list) |-> list[Len(list) + 1 - i]]
    IN IF f = 0 THEN all ELSE SubSeq(all, 1, f)

\* the invocations a fan-out issues when invocation number f is the first to
\* fail (f = 0: none fails): the later ones are never issued
Issued(list, f) == IF f = 0 THEN list ELSE SubSeq(list, 1, f)

Result(ok) == IF ok THEN "Ok" ELSE "Err"

OpRecord(op, ret, was, before) ==
    [op |-> op, ret |-> ret, was |-> was, issued |-> Len(calls') - before]

\* no init or start call is in progress
NoFan == [op |-> "idle", opts |-> <<>>, next |-> 0, inflight |-> {},
          oks |-> {}, errs |-> {}, before |-> 0]

(***************************************************************************)
(* The host: the install path, the table of bound endpoints, and the       *)
(* values the pure functions of the crate are applied to.                  *)
(***************************************************************************)
\* the tasks that read nodes while a node is deleted
Readers == {"r1", "r2"}

\* no guard of any RwLock<Node> is held
NoLocks == [write |-> [k \in 1..MaxNodes |-> 0],
            read |-> [r \in Readers |-> [node |-> 0, during |-> FALSE]]]

\* a prefix "o.a.b" of the table of bound endpoints
Prefix(o, a, b) == <<o, a, b>>

\* the text of an ip prefix: its octets and whether it ends with "."
PrefixText(a, b, dot) == [a |-> a, b |-> b, dot |-> dot]

NoPrefix == [a |-> -1, b |-> -1, dot |-> FALSE]

\* a table that lists only the prefixes of set s
Only(s) == [kind |-> "only", set |-> s]

\* a table that lists every prefix 127.a.b but those of set s
AllBut(s) == [kind |-> "allbut", set |-> s]

NoFound == [fn |-> "none", readable |-> TRUE, ret |-> "none", prefix |-> NoPrefix]

\* LoggedCmd::new for a second instance: run_id: AtomicI32::new(1)
NoOther == [run_id |-> 1, ids |-> <<>>]

\* the runner is held, and sync_all was never called on its file
NoDiscard == [discarded |-> FALSE, file |-> "<none>", syncs |-> 0]

NoConfig == [kind |-> "Null"]

\* to_flat_string was not called yet
NoFlat == [called |-> FALSE, result |-> <<>>, text |-> ""]

NoAsked == [prefixArg |-> NoPrefix, readable |-> TRUE, counts |-> <<>>,
            metaErr |-> FALSE, mkdirOk |-> TRUE, openOk |-> TRUE, install |-> "none"]

\* used_ips.contains / active_nets.contains
InUse(table, p) ==
    IF table.kind = "only" THEN p \in table.set
    ELSE p[1] = 127 /\ p \notin table.set

\* the last value of the two loop ranges, ..=255
LastOctet == 255

\* sniff_ip_prefix: for a in 1..=255, for b in 1..=255
SniffFirst == 1

\* find_available_iprange: for i in 0..=255, for j in 0..=255
FindFirst == 0

\* find_available_iprange, lines 48-50: the candidate the loop body skips
Skipped(skip, a, b) == skip /\ a = 0 /\ b = 0

\* the candidates a scan compares with the table
Candidates(first, skip) ==
    {p \in (first..LastOctet) \X (first..LastOctet) : ~Skipped(skip, p[1], p[2])}

NoPair == <<-1, -1>>

\* variant: a scan that finds every candidate in use falls back on the last one
NoneFreeLast == <<LastOctet, LastOctet>>

\* both scans: what is left when the loops end without a return
NoneFree == NoPair

\* variant: the loop body returns the candidate without looking at the table
TakeAny(table, a, b) == TRUE

\* the loop body: the candidate 127.a.b is returned when the table lacks it
Take(table, a, b) == ~InUse(table, Prefix(127, a, b))

\* the inner loop over the third octet, from lo to hi, in ascending order
\* (the first half, then the second: this keeps the evaluation shallow)
RECURSIVE ScanRow(_, _, _, _, _)
ScanRow(table, skip, a, lo, hi) ==
    IF lo > hi THEN NoPair
    ELSE IF lo = hi
         THEN (IF ~Skipped(skip, a, lo) /\ Take(table, a, lo) THEN <<a, lo>> ELSE NoPair)
         ELSE LET mid == (lo + hi) \div 2
                  head == ScanRow(table, skip, a, lo, mid)
              IN IF head # NoPair THEN head ELSE ScanRow(table, skip, a, mid + 1, hi)

\* the outer loop over the second octet, from lo to hi, in ascending order
RECURSIVE ScanRows(_, _, _, _, _)
ScanRows(table, skip, first, lo, hi) ==
    IF lo > hi THEN NoPair
    ELSE IF lo = hi THEN ScanRow(table, skip, lo, first, LastOctet)
         ELSE LET mid == (lo + hi) \div 2
                  head == ScanRows(table, skip, first, lo, mid)
              IN IF head # NoPair THEN head
                 ELSE ScanRows(table, skip, first, mid + 1, hi)

\* the two loops of a scan, and what follows them
Scan(table, skip, first) ==
    LET p == ScanRows(table, skip, first, first, LastOctet)
    IN IF p # NoPair THEN p ELSE NoneFree

\* Cluster::sniff_ip_prefix: File::open or a read of /proc/net/tcp may fail
SniffIpPrefix(table, readable) ==
    IF ~readable THEN [ret |-> "Io", prefix |-> NoPrefix]
    ELSE LET p == Scan(table, FALSE, SniffFirst)
         IN IF p = NoPair THEN [ret |-> "RawOsError1", prefix |-> NoPrefix]
            ELSE [ret |-> "Ok", prefix |-> PrefixText(p[1], p[2], TRUE)]

\* get_active_networks: an unreadable /proc/net/tcp gives the empty set
GetActiveNetworks(table, readable) == IF readable THEN table ELSE Only({})

\* find_available_iprange: the address 127.i.j.0 or the error string
FindAvailableIprange(table, readable) ==
    LET p == Scan(GetActiveNetworks(table, readable), TRUE, FindFirst)
    IN IF p = NoPair THEN [ret |-> "No free IP ranges found", prefix |-> NoPrefix]
       ELSE [ret |-> "Ok", prefix |-> PrefixText(p[1], p[2], FALSE)]

\* a host: what the install path names, the table, and a ScyllaConfig value
HostWith(inst, table, cfg) ==
    /\ install = inst
    /\ used_ips = table
    /\ found = NoFound
    /\ other = NoOther
    /\ sink = NoDiscard
    /\ config = cfg
    /\ flat = NoFlat
    /\ asked = NoAsked
    /\ ports = {}
    /\ tuned = {}
    /\ pipes = [t \in Threads |-> [s \in Streams |-> [left |-> 0, buf |-> 0]]]
    /\ locks = NoLocks

\* the host of a cluster built with a given prefix in an existing directory
HostDefault == HostWith("dir", Only({}), NoConfig)

\* the state after Cluster::new returned Ok
ClusterInit ==
    /\ \E c \in NodeCounts : nodes = NewNodes(<<>>, c, 1, 0)
    /\ destroyed = FALSE
    /\ defaults = [smp |-> DEFAULT_SMP, memory |-> DEFAULT_MEMORY]
    /\ alive = TRUE
    /\ calls = <<>>
    /\ last = [op |-> "new", ret |-> "Ok", was |-> FALSE, issued |-> 0]
    /\ nops = 0
    /\ fan = NoFan
    /\ ip_prefix = PrefixText(0, 1, TRUE)
    /\ HostDefault

CanOp == alive /\ nops < MaxOps

\* Cluster::add_node
AddNodeOp(dcOpt) ==
    /\ CanOp
    /\ nodes' = AddNodeTo(nodes, dcOpt, defaults)
    /\ nops' = nops + 1
    /\ UNCHANGED <<destroyed, defaults, alive, calls>>
    /\ last' = OpRecord("add_node", "Ok", destroyed, Len(calls))
    /\ UNCHANGED <<runnerVars, fan, hostVars>>

\* Cluster::add_node on a Cluster of fewer than MaxNodes nodes
AddNode(dcOpt) ==
    /\ Len(nodes) < MaxNodes
    /\ AddNodeOp(dcOpt)

\* Cluster::init: rmFails: the state directory exists and remove_dir_all fails;
\* f: the first invocation to fail, of create and then one add per node
ClusterInitOp(rmFails, f) ==
    /\ CanOp
    /\ f \in 0..(1 + Len(nodes))
    /\ LET list == <<Invocation("create", ClusterName, <<>>)>>
                   \o [i \in 1..Len(nodes) |-> NodeInitCall(nodes[i])]
       IN /\ calls' = IF rmFails THEN calls ELSE calls \o Issued(list, f)
          /\ last' = OpRecord("init", Result(~rmFails /\ f = 0), destroyed, Len(calls))
    /\ nops' = nops + 1
    /\ UNCHANGED <<nodes, destroyed, defaults, alive>>
    /\ UNCHANGED <<runnerVars, fan, hostVars>>

\* variant: start returns Ok at once on a destroyed Cluster, as stop does
ClusterStartChecked(opts, f) ==
    /\ CanOp
    /\ f \in 0..Len(nodes)
    /\ LET list == [i \in 1..Len(nodes) |-> NodeStartCall(nodes[i], opts)]
       IN /\ calls' = IF destroyed THEN calls ELSE calls \o Issued(list, f)
          /\ last' = OpRecord("start", Result(destroyed \/ f = 0), destroyed, Len(calls))
    /\ nops' = nops + 1
    /\ UNCHANGED <<nodes, destroyed, defaults, alive>>
    /\ UNCHANGED <<runnerVars, fan, hostVars>>

\* Cluster::start: f: the first start invocation to fail, one per node
ClusterStart(opts, f) ==
    /\ CanOp
    /\ f \in 0..Len(nodes)
    /\ LET list == [i \in 1..Len(nodes) |-> NodeStartCall(nodes[i], opts)]
       IN /\ calls' = calls \o Issued(list, f)
          /\ last' = OpRecord("start", Result(f = 0), destroyed, Len(calls))
    /\ nops' = nops + 1
    /\ UNCHANGED <<nodes, destroyed, defaults, alive>>
    /\ UNCHANGED <<runnerVars, fan, hostVars>>

\* variant: stop does not consult the destroyed flag
StopCallsAlways(d) == <<Invocation("stop", ClusterName, <<>>)>>

\* Cluster::stop, lines 343-359: what it issues and returns
StopCalls(d) == IF d THEN <<>> ELSE <<Invocation("stop", ClusterName, <<>>)>>
StopResult(d, ok) == IF d THEN "Ok" ELSE Result(ok)

ClusterStop(ok) ==
    /\ CanOp
    /\ calls' = calls \o StopCalls(destroyed)
    /\ last' = OpRecord("stop", StopResult(destroyed, ok), destroyed, Len(calls))
    /\ nops' = nops + 1
    /\ UNCHANGED <<nodes, destroyed, defaults, alive>>
    /\ UNCHANGED <<runnerVars, fan, hostVars>>

\* Cluster::destroy, lines 361-389: what it issues, the flag it leaves, what it
\* returns; removeOk: the remove invocation succeeds
\* variant: destroy goes to the remove invocation directly
DestroyCallsNoStop(d) ==
    IF d THEN <<>> ELSE <<Invocation("remove", ClusterName, <<>>)>>

DestroyCalls(d) ==
    IF d THEN <<>>
    ELSE StopCalls(d) \o <<Invocation("remove", ClusterName, <<>>)>>
\* variant: the flag follows the result of the last remove
DestroyFlagRaw(d, removeOk) == removeOk

DestroyFlag(d, removeOk) == IF d THEN d ELSE IF removeOk THEN TRUE ELSE d
\* variant: the result of the remove invocation is dropped
DestroyResultOk(d, removeOk) == "Ok"

DestroyResult(d, removeOk) == IF d THEN "Ok" ELSE Result(removeOk)

\* stopOk is the result of the stop invocation, which destroy drops (.ok())
ClusterDestroy(stopOk, removeOk) ==
    /\ CanOp
    /\ calls' = calls \o DestroyCalls(destroyed)
    /\ destroyed' = DestroyFlag(destroyed, removeOk)
    /\ last' = OpRecord("destroy", DestroyResult(destroyed, removeOk), destroyed, Len(calls))
    /\ nops' = nops + 1
    /\ UNCHANGED <<nodes, defaults, alive>>
    /\ UNCHANGED <<runnerVars, fan, hostVars>>

\* the Cluster goes out of scope; in a test build (cfg(test)) Drop for Cluster
\* runs: it sets destroyed and then calls destroy
ClusterDrop(test) ==
    /\ CanOp
    /\ alive' = FALSE
    /\ LET d == IF test /\ ~destroyed THEN TRUE ELSE destroyed
           ran == test /\ ~destroyed
       IN /\ calls' = IF ran THEN calls \o DestroyCalls(d) ELSE calls
          /\ destroyed' = IF ran THEN DestroyFlag(d, TRUE) ELSE destroyed
    /\ last' = OpRecord("drop", "Ok", destroyed, Len(calls))
    /\ nops' = nops + 1
    /\ UNCHANGED <<nodes, defaults>>
    /\ UNCHANGED <<runnerVars, fan, hostVars>>

\* variant: delete of a DELETED node makes it ACTIVE again
DeletedStatusToggle(status, ok) ==
    IF ok THEN (IF status = "ACTIVE" THEN "DELETED" ELSE "ACTIVE") ELSE status

\* variant: the status is set whatever the remove invocation returns
DeletedStatusAlways(status, ok) == "DELETED"

\* Node::delete, lines 128-129: the ? returns before the assignment of the status
DeletedStatus(status, ok) == IF ok THEN "DELETED" ELSE status

\* Node::delete on node i of the collection, through its write lock
NodeDelete(i, ok) ==
    /\ CanOp
    /\ i \in 1..Len(nodes)
    /\ calls' = Append(calls, Invocation("remove", nodes[i].name, <<>>))
    /\ nodes' = [nodes EXCEPT ![i].status = DeletedStatus(@, ok)]
    /\ last' = OpRecord("delete", Result(ok), destroyed, Len(calls))
    /\ nops' = nops + 1
    /\ UNCHANGED <<destroyed, defaults, alive>>
    /\ UNCHANGED <<runnerVars, fan, hostVars>>

(***************************************************************************)
(* Cluster::init and Cluster::start, invocation by invocation: each        *)
(* run_command call of the loop is issued, is in flight, and returns       *)
(***************************************************************************)
\* the invocations of the call in progress, in the order of its loop
FanList(op, opts) ==
    IF op = "init"
    THEN <<Invocation("create", ClusterName, <<>>)>>
         \o [i \in 1..Len(nodes) |-> NodeInitCall(nodes[i])]
    ELSE [i \in 1..Len(nodes) |-> NodeStartCall(nodes[i], opts)]

\* variant: the invocations are issued without awaiting the one before
AwaitedAlways == TRUE

\* .await: the loop goes on when the run_command call it issued has returned
Awaited == fan.inflight = {}

\* variant: the loop goes on after an Err
AbortedNever == FALSE

\* variant: the result of the first invocation is dropped
AbortedAfterFirst == fan.errs \ {1} # {}

\* the ? operator: the first Err ends the loop and the call
Aborted == fan.errs # {}

\* Cluster::init, lines 305-310: the call begins; when the state directory
\* exists and remove_dir_all fails (rmFails) it returns the error at once
InitBegin(rmFails) ==
    /\ CanOp
    /\ fan.op = "idle"
    /\ nops' = nops + 1
    /\ UNCHANGED <<nodes, destroyed, defaults, alive, calls>>
    /\ IF rmFails
       THEN /\ last' = OpRecord("init", "Err", destroyed, Len(calls))
            /\ UNCHANGED fan
       ELSE /\ fan' = [NoFan EXCEPT !.op = "init", !.next = 1, !.before = Len(calls)]
            /\ UNCHANGED last
    /\ UNCHANGED <<runnerVars, hostVars>>

\* Cluster::start, line 335: the call begins
StartBegin(opts) ==
    /\ CanOp
    /\ fan.op = "idle"
    /\ nops' = nops + 1
    /\ fan' = [NoFan EXCEPT !.op = "start", !.opts = opts, !.next = 1,
                            !.before = Len(calls)]
    /\ UNCHANGED <<nodes, destroyed, defaults, alive, calls, last>>
    /\ UNCHANGED <<runnerVars, hostVars>>

\* the loop issues its next run_command call (init: lines 324 and 329;
\* start: line 338)
FanIssue ==
    /\ fan.op # "idle"
    /\ ~Aborted
    /\ Awaited
    /\ fan.next <= Len(FanList(fan.op, fan.opts))
    /\ calls' = Append(calls, FanList(fan.op, fan.opts)[fan.next])
    /\ fan' = [fan EXCEPT !.inflight = @ \cup {fan.next}, !.next = @ + 1]
    /\ UNCHANGED <<nodes, destroyed, defaults, alive, last, nops>>
    /\ UNCHANGED <<runnerVars, hostVars>>

\* the run_command call of invocation j returns Ok or Err
FanReturn(j, ok) ==
    /\ j \in fan.inflight
    /\ fan' = [fan EXCEPT !.inflight = @ \ {j},
                          !.oks = IF ok THEN @ \cup {j} ELSE @,
                          !.errs = IF ok THEN @ ELSE @ \cup {j}]
    /\ UNCHANGED <<nodes, destroyed, defaults, alive, calls, last, nops>>
    /\ UNCHANGED <<runnerVars, hostVars>>

\* the call returns: Err(e) of the first failed invocation, or Ok(()) after
\* the last one (init: lines 329 and 332; start: lines 338 and 340)
FanEnd ==
    /\ fan.op # "idle"
    /\ fan.inflight = {}
    /\ Aborted \/ fan.next > Len(FanList(fan.op, fan.opts))
    /\ UNCHANGED <<nodes, destroyed, defaults, alive, calls, nops>>
    /\ last' = OpRecord(fan.op, Result(fan.errs = {}), destroyed, fan.before)
    /\ fan' = NoFan
    /\ UNCHANGED <<runnerVars, hostVars>>

\* no Cluster yet: the runner is checked alone
NoClusterYet ==
    /\ nodes = <<>>
    /\ destroyed = FALSE
    /\ defaults = [smp |-> DEFAULT_SMP, memory |-> DEFAULT_MEMORY]
    /\ alive = FALSE
    /\ calls = <<>>
    /\ last = [op |-> "none", ret |-> "Ok", was |-> FALSE, issued |-> 0]
    /\ nops = 0
    /\ fan = NoFan
    /\ ip_prefix = NoPrefix

NoCluster ==
    /\ NoClusterYet
    /\ HostDefault

Init ==
    /\ RunnerInit
    /\ NoCluster

\* the steps of the env loop of run_command, for the tasks T
EnvSteps(T) ==
    \/ \E t \in T, k \in EnvKeys : EnvWriteBegin(t, k)
    \/ \E t \in T : EnvWriteEnd(t)

\* the other steps of the runner, its tasks T calling with opts of O, the
\* children ending their wait with a result of R, the log opened under a name of F
RunSteps(T, O, R, F) ==
    \/ \E name \in F, ok \in BOOLEAN : SetLogFile(name, ok)
    \/ \E t \in T, o \in O : Call(t, o.env, o.allow)
    \/ \E t \in T : SpawnFail(t)
    \/ \E t \in T : SpawnOk(t)
    \/ \E t \in T : StartedBegin(t)
    \/ \E t \in T : StartedEnd(t)
    \/ \E t \in T, result \in R : ExitedBegin(t, result)
    \/ \E t \in T : ExitedEnd(t)
    \/ \E t \in T, s \in Streams : DrainWriteBegin(t, s)
    \/ \E t \in T, s \in Streams : DrainWriteEnd(t, s)
    \/ \E t \in T, s \in Streams : DrainEof(t, s)
    \/ \E t \in T : ChildExit(t)

\* one task runs commands one after another, with every kind of input
Next ==
    \/ RunSteps({"t1"}, Options, WaitResults, FileNames)
    \/ EnvSteps({"t1"})

Spec == Init /\ [][Next]_vars

\* the tasks run commands concurrently on the one runner
\* (with opts = None, as Cluster::init, stop and destroy call run_command)
ConcNext == RunSteps(Threads, ConcOptions, ConcResults, {"a.log"})

ConcSpec == Init /\ [][ConcNext]_vars

\* the operations of one Cluster
ClusterNext ==
    \/ \E dcOpt \in DcArgs : AddNode(dcOpt)
    \/ \E rmFails \in BOOLEAN, f \in 0..(MaxNodes + 1) : ClusterInitOp(rmFails, f)
    \/ \E opts \in StartOpts, f \in 0..MaxNodes : ClusterStart(opts, f)
    \/ \E ok \in BOOLEAN : ClusterStop(ok)
    \/ \E stopOk \in BOOLEAN, removeOk \in BOOLEAN : ClusterDestroy(stopOk, removeOk)
    \/ \E test \in BOOLEAN : ClusterDrop(test)
    \/ \E i \in 1..MaxNodes, ok \in BOOLEAN : NodeDelete(i, ok)

ClusterSpecInit ==
    /\ RunnerInit
    /\ ClusterInit

ClusterSpec == ClusterSpecInit /\ [][ClusterNext]_vars

(***************************************************************************)
(* Node ids: get_free_node_id and add_node on large collections            *)
(***************************************************************************)
\* a node collection holding the ids of H in datacenter dc, in ascending order
IdsToNodes(dc, H) ==
    LET top == IF H = {} THEN 0 ELSE CHOOSE i \in H : \A k \in H : k <= i
        all == [i \in 1..top |-> NodeNew(dc, i, DEFAULT_SMP, DEFAULT_MEMORY)]
    IN SelectSeq(all, LAMBDA n : n.node_id \in H)

\* the ids get_free_node_id finds held in the datacenter it scans: any set of
\* small ids, every id, and every id but one
HeldSets ==
    (SUBSET (1..MaxGapId))
      \cup {1..LastNodeId}
      \cup {(1..LastNodeId) \ {g} : g \in {MaxGapId, LastNodeId}}

\* the ids held in another datacenter: none, or small ids with a gap
OtherHeldSets == {{}, (1..MaxGapId) \ {MaxGapId - 1}}

\* a Cluster with a given collection and nothing done on it yet
ClusterWith(ns) ==
    /\ nodes = ns
    /\ destroyed = FALSE
    /\ defaults = [smp |-> DEFAULT_SMP, memory |-> DEFAULT_MEMORY]
    /\ alive = TRUE
    /\ calls = <<>>
    /\ last = [op |-> "new", ret |-> "Ok", was |-> FALSE, issued |-> 0]
    /\ nops = 0
    /\ fan = NoFan
    /\ ip_prefix = PrefixText(0, 1, TRUE)
    /\ HostDefault

\* get_free_node_id as a function of self.nodes: the collection is any one
\* with the ids of a set of HeldSets in datacenter 1 and of OtherHeldSets in
\* datacenter 2
FreeIdSpecInit ==
    /\ RunnerInit
    /\ \E H1 \in HeldSets, H2 \in OtherHeldSets :
          ClusterWith(IdsToNodes(1, H1) \o IdsToNodes(2, H2))

\* the number_of_nodes vectors that leave datacenter 1 at most MaxSpare ids
NearlyFullCounts ==
    {<<k>> : k \in (LastNodeId - MaxSpare)..LastNodeId}
      \cup {<<k, m>> : k \in (LastNodeId - MaxSpare)..LastNodeId, m \in 1..MaxSpare}

\* the state after Cluster::new returned Ok for one of these vectors
IdSpecInit ==
    /\ RunnerInit
    /\ \E c \in NearlyFullCounts : ClusterWith(NewNodes(<<>>, c, 1, 0))

\* add_node, whatever the size of the collection
IdNext == \E dcOpt \in DcArgs : AddNodeOp(dcOpt)

FreeIdSpec == FreeIdSpecInit /\ [][IdNext]_vars

IdSpec == IdSpecInit /\ [][IdNext]_vars

\* init and start calls of one Cluster, one after another, each invocation of
\* their loops a step of its own
FanNext ==
    \/ \E rmFails \in BOOLEAN : InitBegin(rmFails)
    \/ \E opts \in StartOpts : StartBegin(opts)
    \/ FanIssue
    \/ \E j \in 1..(MaxNodes + 1), ok \in BOOLEAN : FanReturn(j, ok)
    \/ FanEnd

FanSpec == ClusterSpecInit /\ [][FanNext]_vars

(***************************************************************************)
(* What the properties read from the state                                 *)
(***************************************************************************)
\* the chunks of all log files, file after file (a run writes to one file)
AllChunks == disk[LogFiles[1]].data \o disk[LogFiles[2]].data

\* the positions in a chunk sequence of the chunks of run rid with a tag and part
At(d, rid, tag, part) ==
    {i \in 1..Len(d) : d[i].rid = rid /\ d[i].tag = tag /\ d[i].part = part}

\* the positions of the stdout and stderr chunks of run rid
StreamAt(d, rid) ==
    {i \in 1..Len(d) : d[i].rid = rid /\ d[i].tag \in Streams}

\* the file the run of task t writes to, as it is now
RunData(t) == IF th[t].writer = NoFile THEN <<>> ELSE disk[th[t].writer].data

\* run_command has returned to task t (a panic is no return)
Returned(t) == th[t].pc = "idle" /\ th[t].ret.kind # "none" /\ th[t].ret.err # "Panic"

\* ... from a run whose child was spawned
ReturnedSpawned(t) == Returned(t) /\ th[t].ret.err # "SpawnFailed"

\* in d, run rid has one started line, then its stream lines, then one exited line
RunLogShape(d, rid) ==
    /\ Cardinality(At(d, rid, "started", "head")) = 1
    /\ Cardinality(At(d, rid, "started", "tail")) = 1
    /\ Cardinality(At(d, rid, "exited", "head")) = 1
    /\ Cardinality(At(d, rid, "exited", "tail")) = 1
    /\ \A i \in StreamAt(d, rid) :
          /\ \A j \in At(d, rid, "started", "tail") : j < i
          /\ \A j \in At(d, rid, "exited", "head") : i < j

\* in d, no line of run rid is out of order, whether the run has ended or not
RunLogOrder(d, rid) ==
    /\ Cardinality(At(d, rid, "started", "head")) <= 1
    /\ Cardinality(At(d, rid, "exited", "head")) <= 1
    /\ \A i \in StreamAt(d, rid) \cup At(d, rid, "exited", "head") :
          \E j \in At(d, rid, "started", "tail") : j < i
    /\ \A i \in StreamAt(d, rid) :
          \A j \in At(d, rid, "exited", "head") : i < j

(***************************************************************************)
(* C1..C10                                                                 *)
(***************************************************************************)
\* C1: the run ids handed out to N calls, concurrent or not, are exactly 1..N:
\* no duplicates, no gaps
C1_RunIdsExact ==
    /\ Cardinality({ids[i] : i \in 1..Len(ids)}) = Len(ids)
    /\ {ids[i] : i \in 1..Len(ids)} = 1..Len(ids)

\* two runs are in progress at once, each with its own id
C1_Witness ==
    /\ Len(ids) >= 2
    /\ \A t \in Threads : th[t].pc = "wait"
    /\ \E t1, t2 \in Threads : th[t1].rid = 1 /\ th[t2].rid = 2

C3_LineAtomic ==
    /\ Cardinality(holders) <= 1
    /\ \A f \in FileNames :
          LET d == disk[f].data
          IN \A i \in 1..Len(d) :
                /\ d[i].part = "head" =>
                      \/ i < Len(d) /\ d[i + 1] = [d[i] EXCEPT !.part = "tail"]
                      \/ i = Len(d) /\ holders # {}
                /\ d[i].part = "tail" =>
                      i > 1 /\ d[i - 1] = [d[i] EXCEPT !.part = "head"]

\* a drain of one run holds the guard in the middle of a line while the other
\* drain of that run and the run_command of another task wait to write
C3_Witness ==
    \E t1, t2 \in Threads :
       /\ t1 # t2
       /\ holders = {<<t1, "stdout">>}
       /\ dr[t1]["stderr"].pc = "read"
       /\ th[t2].pc = "started"

\* C4: a run whose child exits with code 0 returns Ok; with a non-zero code it
\* returns CommandFailed when allow-failure is unset or false, and Ok carrying
\* that status when allow-failure is true
C4_ResultByExitCode ==
    \A t \in Threads :
       Returned(t) /\ th[t].status.kind = "code" =>
          /\ th[t].status.code = 0 => th[t].ret = RetOk(th[t].status)
          /\ th[t].status.code # 0 /\ th[t].allow \in {"unset", "false"} =>
                th[t].ret = RetErr("CommandFailed")
          /\ th[t].status.code # 0 /\ th[t].allow = "true" =>
                th[t].ret = RetOk(th[t].status)

\* a child exited with code 2 and the run, allowed to fail, returned Ok
C4_Witness ==
    \E t \in Threads :
       /\ Returned(t)
       /\ th[t].status = [kind |-> "code", code |-> 2]
       /\ th[t].allow = "true"
       /\ th[t].ret.kind = "Ok"

\* C5: a Run whose spawn fails has logged the spawn error under its run id (a
\* line of its id that is no env line) when it returns SpawnFailed
C5_SpawnErrorLogged ==
    \A t \in Threads :
       Returned(t) /\ th[t].ret.err = "SpawnFailed" =>
          \E i \in 1..Len(RunData(t)) :
             RunData(t)[i].rid = th[t].rid /\ RunData(t)[i].tag # "env"

\* C6: when waiting on the child fails, the run has written one exited line with
\* the wait-failure message and returns WaitFailed, which is not CommandFailed
C6_WaitFailed ==
    \A t \in Threads :
       Returned(t) /\ th[t].status.kind = "waiterr" =>
          /\ th[t].ret = RetErr("WaitFailed")
          /\ th[t].ret # RetErr("CommandFailed")
          /\ Cardinality(At(RunData(t), th[t].rid, "exited", "tail")) = 1
          /\ \A i \in At(RunData(t), th[t].rid, "exited", "tail") :
                RunData(t)[i].pay = "failed to wait on child process"

\* a run has returned after its wait failed
C6_Witness ==
    \E t \in Threads : Returned(t) /\ th[t].status.kind = "waiterr"

\* C7: a Run with k env overrides writes exactly k env lines of its id, one per
\* override, all before its child is spawned and before its started line; a Run
\* with no override writes none
C7_EnvLinesBeforeSpawn ==
    \A t \in Threads :
       th[t].rid # 0 /\ th[t].ret.err # "Panic" =>
          LET d == RunData(t)
              envAt == At(d, th[t].rid, "env", "tail")
          IN /\ {d[i].pay : i \in envAt} = th[t].envAll \ th[t].env
             /\ Cardinality(envAt) = Cardinality(th[t].envAll \ th[t].env)
             /\ th[t].pc \notin {"env", "envW"} => th[t].env = {}
             /\ ch[t] # "none" => \A i \in envAt : i <= th[t].spawnPos
             /\ \A i \in envAt : \A j \in At(d, th[t].rid, "started", "head") : i < j

\* a run with two overrides has spawned its child and written its started line
C7_Witness ==
    \E t \in Threads :
       /\ th[t].pc = "wait"
       /\ th[t].envAll = EnvKeys
       /\ Cardinality(At(RunData(t), th[t].rid, "env", "tail")) = 2

\* a sequence is a prefix of another
IsPrefix(p, q) == Len(p) <= Len(q) /\ SubSeq(q, 1, Len(p)) = p

\* C8: the log is append-only: no step, set_log_file on an existing file
\* included, removes a file or changes what it already holds
C8_AppendOnly ==
    [][\A f \in FileNames :
          disk[f].exists => disk'[f].exists /\ IsPrefix(disk[f].data, disk'[f].data)]_vars

\* the log was opened on the file a previous process left, and a run has returned
\* after writing to it
C8_Witness ==
    /\ file = "a.log"
    /\ IsPrefix(OldContent, disk["a.log"].data)
    /\ \E t \in Threads : ReturnedSpawned(t) /\ th[t].writer = "a.log"

\* C9: the destroyed flag of a Cluster only ever goes from false to true
C9_DestroyedMonotonic == [][destroyed => destroyed']_vars

\* an operation ran on a Cluster that was destroyed already, and it still is
C9_Witness == destroyed /\ last.was /\ last.op = "destroy"

\* C10: stop or destroy on a Cluster whose destroyed flag is true returns Ok and
\* issues no external invocation
C10_NoOpOnceDestroyed ==
    last.op \in {"stop", "destroy"} /\ last.was => last.ret = "Ok" /\ last.issued = 0

\* stop was called on a destroyed Cluster
C10_Witness == last.op = "stop" /\ last.was /\ destroyed


\* the invocations on the cluster itself that stop and destroy issue
StopInv == [cmd |-> "stop", target |-> ClusterName, flags |-> <<>>]
RemoveInv == [cmd |-> "remove", target |-> ClusterName, flags |-> <<>>]

\* the invocations the last operation issued
LastIssued == SubSeq(calls, Len(calls) - last.issued + 1, Len(calls))

\* C11: destroy on a Cluster that is not destroyed issues the stop invocation,
\* whatever it returns, and then one remove invocation; destroyed becomes true
\* exactly when the remove succeeds, and when it fails destroy returns the error
\* and destroyed stays false
C11_DestroyStopsThenRemoves ==
    [][\A stopOk \in BOOLEAN, removeOk \in BOOLEAN :
          ~destroyed /\ ClusterDestroy(stopOk, removeOk) =>
             /\ calls' = calls \o <<StopInv, RemoveInv>>
             /\ destroyed' = removeOk
             /\ last'.ret = IF removeOk THEN "Ok" ELSE "Err"]_vars

\* destroy ran on a live Cluster and its remove invocation failed
C11_Witness ==
    /\ last.op = "destroy" /\ ~last.was
    /\ last.ret = "Err" /\ ~destroyed
    /\ LastIssued = <<StopInv, RemoveInv>>

\* C12: when a Cluster that was never destroyed goes out of scope in a test
\* build, the scope-exit hook issues the stop and the remove invocation for it
C12_DropDestroys ==
    [][~destroyed /\ ClusterDrop(TRUE) =>
          calls' = calls \o <<StopInv, RemoveInv>>]_vars

\* what an invocation does and which cluster or node it names
Does(c, cmd, target) == c.cmd = cmd /\ c.target = target

\* C13: a successful init followed by a successful start of a Cluster of n
\* nodes issues one create invocation, then n add invocations, then n start
\* invocations, the adds and the starts each in the order the nodes were created
C13_InitThenStartOrder ==
    [][(/\ last.op = "init" /\ last.ret = "Ok"
        /\ \E opts \in StartOpts : ClusterStart(opts, 0)) =>
          LET n == Len(nodes)
              k == Len(calls')
          IN /\ last.issued = 1 + n /\ last'.issued = n /\ last'.ret = "Ok"
             /\ k >= 1 + 2 * n
             /\ Does(calls'[k - 2 * n], "create", ClusterName)
             /\ \A i \in 1..n :
                   /\ Does(calls'[k - 2 * n + i], "add", nodes[i].name)
                   /\ Does(calls'[k - n + i], "start", nodes[i].name)
             /\ \A i \in 1..n :
                   nodes = NewNodes(<<>>, <<n>>, 1, 0) =>
                      nodes[i].name = "node_1_" \o ToString(i)]_vars

\* a Cluster created with MaxNodes nodes in datacenter 1 was initialised and
\* then started, every invocation succeeding
C13_Witness ==
    /\ last.op = "start" /\ last.ret = "Ok"
    /\ nodes = NewNodes(<<>>, <<MaxNodes>>, 1, 0)
    /\ Len(calls) = 1 + 2 * MaxNodes
    /\ Does(calls[1], "create", ClusterName)
    /\ \A i \in 1..MaxNodes :
          /\ Does(calls[1 + i], "add", nodes[i].name)
          /\ Does(calls[1 + MaxNodes + i], "start", nodes[i].name)

\* stop has just returned Ok on a live Cluster that was not destroyed
StoppedLive == alive /\ last.op = "stop" /\ ~last.was /\ last.ret = "Ok"

\* C14 as stated: destroy called after a successful stop issues one stop and one
\* remove invocation and leaves destroyed = true
C14_DestroyAfterStop ==
    [][(StoppedLive /\ \E stopOk \in BOOLEAN, removeOk \in BOOLEAN :
                          ClusterDestroy(stopOk, removeOk)) =>
          /\ calls' = calls \o <<StopInv, RemoveInv>>
          /\ destroyed']_vars

\* C14, amended: destroy called after a successful stop issues one stop and one
\* remove invocation; it leaves destroyed = true when the remove invocation
\* succeeds and destroyed = false when it fails
C14_DestroyAfterStopRemoved ==
    [][\A stopOk \in BOOLEAN, removeOk \in BOOLEAN :
          StoppedLive /\ ClusterDestroy(stopOk, removeOk) =>
             /\ calls' = calls \o <<StopInv, RemoveInv>>
             /\ destroyed' = removeOk]_vars

\* stop and then destroy ran on a live Cluster: the stop of stop, the stop of
\* destroy and the remove were issued, and the Cluster is destroyed
C14_Witness ==
    /\ last.op = "destroy" /\ ~last.was /\ destroyed
    /\ Len(calls) >= 3
    /\ SubSeq(calls, Len(calls) - 2, Len(calls)) = <<StopInv, StopInv, RemoveInv>>

\* the invocations the init or start call in progress has issued so far
FanIssued == SubSeq(calls, fan.before + 1, Len(calls))

\* C15: Cluster::init issues create and then one add per node, one after
\* another in collection order, and stops at the first invocation that fails:
\* no later node gets an add invocation, the error is returned, and no
\* invocation undoes what was created
C15_InitAbortsAtFirstFailure ==
    LET list == FanList("init", <<>>)
    IN /\ fan.op = "init" =>
             /\ Cardinality(fan.inflight) <= 1
             /\ FanIssued = SubSeq(list, 1, fan.next - 1)
             /\ fan.errs # {} => fan.errs = {fan.next - 1}
             /\ fan.oks = 1..(fan.next - 1) \ (fan.inflight \cup fan.errs)
       /\ fan.op = "idle" /\ last.op = "init" =>
             /\ LastIssued = SubSeq(list, 1, last.issued)
             /\ last.issued < Len(list) => last.ret = "Err"
             /\ \A i \in 1..last.issued : LastIssued[i].cmd \in {"create", "add"}

\* init of a Cluster of MaxNodes nodes returned the error of its first add
\* invocation: the later nodes got none
C15_Witness ==
    /\ fan.op = "idle" /\ last.op = "init" /\ last.ret = "Err"
    /\ Len(nodes) = MaxNodes /\ MaxNodes >= 2
    /\ last.issued = 2
    /\ Does(calls[Len(calls)], "add", nodes[1].name)

\* C16: Cluster::start starts the nodes one at a time in collection order: never
\* are two start invocations of the call in flight, a node's start is issued
\* only after the start of the node before it returned Ok, and the first failure
\* ends the call with no start issued for the remaining nodes
C16_StartSequential ==
    LET list == FanList("start", fan.opts)
    IN /\ fan.op = "start" =>
             /\ Cardinality(fan.inflight) <= 1
             /\ \A j \in 2..(fan.next - 1) : (j - 1) \in fan.oks
             /\ fan.errs # {} => fan.errs = {fan.next - 1}
             /\ FanIssued = SubSeq(list, 1, fan.next - 1)
       /\ fan.op = "idle" /\ last.op = "start" =>
             /\ last.issued <= Len(nodes)
             /\ \A i \in 1..last.issued : Does(LastIssued[i], "start", nodes[i].name)
             /\ last.issued < Len(nodes) => last.ret = "Err"

\* the start invocation of the second node is in flight, that of the first
\* node has returned Ok
C16_Witness ==
    /\ fan.op = "start"
    /\ fan.inflight = {2}
    /\ fan.oks = {1}

\* the ids the nodes of ns hold in datacenter dc
HeldIds(ns, dc) == {ns[j].node_id : j \in {k \in 1..Len(ns) : ns[k].datacenter_id = dc}}

\* the collection add_node found, and the node it appended to it
Before == SubSeq(nodes, 1, Len(nodes) - 1)
Added == nodes[Len(nodes)]

\* C17: get_free_node_id(dc) returns the smallest id of 1..255 that no node of
\* datacenter dc holds, whatever the nodes of other datacenters hold, and 256
\* when the nodes of dc hold all of 1..255
C17_SmallestFreeId ==
    last.op = "add_node" =>
       LET free == (1..255) \ HeldIds(Before, Added.datacenter_id)
       IN IF free = {}
          THEN Added.node_id = 256
          ELSE /\ Added.node_id \in free
               /\ \A k \in free : Added.node_id <= k

\* add_node(Some(2)) on ids {1, 2, 4} of datacenter 2 gave 3, and then
\* add_node(Some(1)) on a datacenter 1 holding all of 1..255 gave 256
C17_Witness ==
    /\ last.op = "add_node"
    /\ Len(nodes) >= 2
    /\ Added.datacenter_id = 1 /\ Added.node_id = 256
    /\ HeldIds(Before, 1) = 1..255
    /\ Before[Len(Before)].datacenter_id = 2 /\ Before[Len(Before)].node_id = 3
    /\ HeldIds(SubSeq(Before, 1, Len(Before) - 1), 2) = {1, 2, 4}

\* C18: after construction and any add_node calls every node's id lies in
\* 1..255 and no two nodes have the same datacenter id and node id, nor the
\* same name
C18_IdsInRangeAndUnique ==
    /\ \A i \in 1..Len(nodes) : nodes[i].node_id \in 1..255
    /\ \A i \in 1..Len(nodes) : \A j \in 1..Len(nodes) :
          i # j =>
             /\ <<nodes[i].datacenter_id, nodes[i].node_id>>
                   # <<nodes[j].datacenter_id, nodes[j].node_id>>
             /\ nodes[i].name # nodes[j].name

\* C19: a node is ACTIVE when it is created, and its status changes only from
\* ACTIVE to DELETED and only in a delete operation: a DELETED node stays DELETED
C19_StatusOnlyDeleted ==
    /\ \A i \in 1..Len(nodes) : nodes[i].status = "ACTIVE"
    /\ [][/\ Len(nodes') >= Len(nodes)
          /\ \A i \in 1..Len(nodes) :
                nodes'[i].status # nodes[i].status =>
                   /\ nodes[i].status = "ACTIVE"
                   /\ nodes'[i].status = "DELETED"
                   /\ last'.op = "delete"
          /\ \A i \in (Len(nodes) + 1)..Len(nodes') :
                nodes'[i].status = "ACTIVE"]_vars

\* a delete operation has made one node DELETED, another node is ACTIVE
C19_Witness ==
    /\ last.op = "delete" /\ last.ret = "Ok"
    /\ \E i \in 1..Len(nodes), j \in 1..Len(nodes) :
          nodes[i].status = "DELETED" /\ nodes[j].status = "ACTIVE"

\* C20: Node::delete issues one remove invocation for its node; when that
\* succeeds the status becomes DELETED; when it fails delete returns the error and
\* the status stays what it was; no other node is touched
C20_DeleteOnce ==
    [][\A i \in 1..MaxNodes, ok \in BOOLEAN :
          NodeDelete(i, ok) =>
             /\ calls' = Append(calls, [cmd |-> "remove", target |-> nodes[i].name,
                                        flags |-> <<>>])
             /\ nodes'[i].status = IF ok THEN "DELETED" ELSE nodes[i].status
             /\ last'.ret = IF ok THEN "Ok" ELSE "Err"
             /\ Len(nodes') = Len(nodes)
             /\ \A j \in 1..Len(nodes) : j # i => nodes'[j] = nodes[j]]_vars

\* delete of a node failed: its remove invocation was issued, the node is ACTIVE
C20_Witness ==
    /\ last.op = "delete" /\ last.ret = "Err"
    /\ last.issued = 1
    /\ \E i \in 1..Len(nodes) :
          /\ Does(calls[Len(calls)], "remove", nodes[i].name)
          /\ nodes[i].status = "ACTIVE"

(***************************************************************************)
(* Cluster::new, and the two scans of the loopback block as calls          *)
(***************************************************************************)
\* lines 252-255: Some(v) is taken as it is, None asks sniff_ip_prefix
ResolvePrefix(prefixArg, table, readable) ==
    IF prefixArg # NoPrefix THEN [ret |-> "Ok", prefix |-> prefixArg]
    ELSE SniffIpPrefix(table, readable)

\* lines 256-258: the prefix ends with "." from here on
Normalize(p) == [p EXCEPT !.dot = TRUE]

\* variant: a path that is not a directory is taken as it is
PathCheckLax(inst, metaErr, mkdirOk) ==
    IF metaErr THEN [ret |-> "Io", install |-> inst]
    ELSE IF inst = "absent"
         THEN (IF mkdirOk THEN [ret |-> "Ok", install |-> "dir"]
               ELSE [ret |-> "Io", install |-> inst])
         ELSE [ret |-> "Ok", install |-> inst]

\* lines 260-277: metadata of the install path; metaErr is an error other
\* than NotFound, mkdirOk the outcome of create_dir_all
PathCheck(inst, metaErr, mkdirOk) ==
    IF metaErr THEN [ret |-> "Io", install |-> inst]
    ELSE IF inst = "file" THEN [ret |-> "DirectoryNotEmpty", install |-> inst]
    ELSE IF inst = "absent"
         THEN (IF mkdirOk THEN [ret |-> "Ok", install |-> "dir"]
               ELSE [ret |-> "Io", install |-> inst])
         ELSE [ret |-> "Ok", install |-> inst]

\* line 280: {install_directory}/{name}.ccm.log
ClusterLog == LogFiles[2]

\* what Cluster::new returns: the first step that fails, or Ok
NewResult(resolved, checked, openOk) ==
    IF resolved.ret # "Ok" THEN resolved.ret
    ELSE IF checked.ret # "Ok" THEN checked.ret
    ELSE IF ~openOk THEN "Io"
    ELSE "Ok"

\* Cluster::new
ClusterNew(prefixArg, readable, counts, metaErr, mkdirOk, openOk) ==
    /\ ~alive /\ last.op = "none"
    /\ AllIdle /\ file = NoFile
    /\ \E resolved \in {ResolvePrefix(prefixArg, used_ips, readable)},
          checked \in {PathCheck(install, metaErr, mkdirOk)} :
       LET ret == NewResult(resolved, checked, openOk)
       IN /\ asked' = [prefixArg |-> prefixArg, readable |-> readable,
                        counts |-> counts, metaErr |-> metaErr,
                        mkdirOk |-> mkdirOk, openOk |-> openOk, install |-> install]
          /\ found' = IF prefixArg = NoPrefix
                      THEN [fn |-> "sniff_ip_prefix", readable |-> readable,
                            ret |-> resolved.ret, prefix |-> resolved.prefix]
                      ELSE found
          /\ install' = IF resolved.ret = "Ok" THEN checked.install ELSE install
          /\ IF ret = "Ok"
             THEN /\ log_file' = ClusterLog
                  /\ file' = ClusterLog
                  /\ disk' = OpenAppend(disk, ClusterLog)
                  /\ opens' = opens + 1
                  /\ ip_prefix' = Normalize(resolved.prefix)
                  /\ nodes' = NewNodes(<<>>, counts, 1, 0)
                  /\ alive' = TRUE
             ELSE UNCHANGED <<log_file, file, disk, opens, ip_prefix, nodes, alive>>
          /\ UNCHANGED <<run_id, holders, th, dr, ch, ids>>
          /\ UNCHANGED <<destroyed, defaults, calls, nops, fan>>
          /\ UNCHANGED <<used_ips, other, sink, config, flat, nodeVars>>
          /\ last' = OpRecord("new", ret, FALSE, Len(calls))

\* a call of sniff_ip_prefix
SniffCall(readable) ==
    /\ found.fn = "none"
    /\ found' = [fn |-> "sniff_ip_prefix", readable |-> readable]
                  @@ SniffIpPrefix(used_ips, readable)
    /\ UNCHANGED <<runnerVars, nodes, destroyed, defaults, alive, calls, last, nops, fan>>
    /\ UNCHANGED <<install, used_ips, ip_prefix, other, sink, config, flat, asked, nodeVars>>

\* a call of find_available_iprange
FindCall(readable) ==
    /\ found.fn = "none"
    /\ found' = [fn |-> "find_available_iprange", readable |-> readable]
                  @@ FindAvailableIprange(used_ips, readable)
    /\ UNCHANGED <<runnerVars, nodes, destroyed, defaults, alive, calls, last, nops, fan>>
    /\ UNCHANGED <<install, used_ips, ip_prefix, other, sink, config, flat, asked, nodeVars>>

\* the prefix arguments of Cluster::new: None, "127.0.1" and "127.0.1."
PrefixArgs == {NoPrefix, PrefixText(0, 1, FALSE), PrefixText(0, 1, TRUE)}

\* the number_of_nodes vectors of Cluster::new: the small ones, and one that
\* asks a datacenter for more nodes than it has ids
NewCounts == NodeCounts \cup {<<LastNodeId + 2>>}

\* the tables Cluster::new meets
NewTables ==
    {Only(s) : s \in SUBSET {Prefix(127, 0, 1), Prefix(127, 1, 1), Prefix(127, 1, 2)}}

NewSpecInit ==
    /\ RunnerInit
    /\ NoClusterYet
    /\ \E inst \in {"absent", "dir", "file"}, table \in NewTables :
          HostWith(inst, table, NoConfig)

\* the step of Cluster::new that the host makes fail, if any
Faults == {"none", "proc", "metadata", "mkdir", "open"}

NewNext ==
    \E prefixArg \in PrefixArgs, counts \in NewCounts, fault \in Faults :
        ClusterNew(prefixArg, fault # "proc", counts, fault = "metadata",
                   fault # "mkdir", fault # "open")

NewSpec == NewSpecInit /\ [][NewNext]_vars

\* the prefixes a table may list, and the ones a nearly full table may lack
SomePrefixes ==
    {Prefix(127, 0, 0), Prefix(127, 0, 1), Prefix(127, 1, 0), Prefix(127, 1, 1),
     Prefix(127, 1, 2), Prefix(10, 1, 1)}

FewFree ==
    {Prefix(127, 0, 0), Prefix(127, 0, 9), Prefix(127, 7, 0), Prefix(127, 255, 255)}

Tables ==
    {Only(s) : s \in SUBSET SomePrefixes} \cup {AllBut(s) : s \in SUBSET FewFree}

AllocSpecInit ==
    /\ RunnerInit
    /\ NoClusterYet
    /\ \E table \in Tables : HostWith("dir", table, NoConfig)

AllocNext == \E readable \in BOOLEAN : SniffCall(readable) \/ FindCall(readable)

AllocSpec == AllocSpecInit /\ [][AllocNext]_vars


\* the place of the first node of datacenter i in a collection built from counts
RECURSIVE Offset(_, _)
Offset(counts, i) == IF i <= 1 THEN 0 ELSE Offset(counts, i - 1) + counts[i - 1]

\* ns holds, for each index i of counts, counts[i] nodes of datacenter i with
\* the ids 1..counts[i] in ascending order, datacenter by datacenter, each with
\* the resource hints dflt
BuiltFrom(ns, counts, dflt) ==
    /\ Len(ns) = Offset(counts, Len(counts) + 1)
    /\ \A i \in 1..Len(counts) : \A j \in 1..counts[i] :
          LET n == ns[Offset(counts, i) + j]
          IN /\ n.datacenter_id = i
             /\ n.node_id = j
             /\ n.smp = dflt.smp
             /\ n.memory = dflt.memory

\* Cluster::new has returned, and no other operation has run since
NewReturned == last.op = "new" /\ asked # NoAsked

\* C21: a construction with the nodes-per-datacenter list counts that succeeds
\* leaves a collection that holds, for each index i, counts[i] nodes of
\* datacenter i with the node ids 1..counts[i], datacenter by datacenter and in
\* ascending id order, each with the default resource hints of the cluster
C21_NodesAsRequested ==
    NewReturned /\ last.ret = "Ok" => BuiltFrom(nodes, asked.counts, defaults)

\* the steps of the call that the host made fail
MetadataFailed == asked.metaErr
MkdirFailed == asked.install = "absent" /\ ~asked.metaErr /\ ~asked.mkdirOk
OpenFailed == ~asked.openOk

\* C22 as stated: whatever else happens, a construction on a path that is not
\* a directory fails with the path conflict error, a construction on an absent
\* path creates the directory, a failure of metadata, of the directory
\* creation or of the log open makes the construction fail, and a failed
\* construction returns no Cluster and opens no log sink
C22_PathChecked ==
    NewReturned =>
        /\ (asked.install = "file" /\ ~MetadataFailed
               => last.ret = "DirectoryNotEmpty")
        /\ (asked.install = "absent" /\ ~MetadataFailed /\ ~MkdirFailed
               => install = "dir")
        /\ (MetadataFailed \/ MkdirFailed \/ OpenFailed => last.ret # "Ok")
        /\ (last.ret # "Ok" => ~alive /\ file = NoFile /\ disk = RunnerDisk)

\* the ip prefix of the call was there: given by the caller, or found by
\* sniff_ip_prefix
Resolved == asked.prefixArg # NoPrefix \/ found.ret = "Ok"

\* C22: once the ip prefix is resolved, a construction on a path that is not a
\* directory fails with the path conflict error and one on an absent path
\* creates the directory; a failure to resolve the prefix, of metadata, of the
\* directory creation or of the log open makes the construction fail; and a
\* failed construction returns no Cluster and opens no log sink
C22_PathCheckedOnceResolved ==
    NewReturned =>
        /\ (Resolved /\ asked.install = "file" /\ ~MetadataFailed
               => last.ret = "DirectoryNotEmpty")
        /\ (Resolved /\ asked.install = "absent" /\ ~MetadataFailed /\ ~MkdirFailed
               => install = "dir")
        /\ (~Resolved => last.ret # "Ok" /\ install = asked.install)
        /\ (MetadataFailed \/ MkdirFailed \/ OpenFailed => last.ret # "Ok")
        /\ (last.ret # "Ok" => ~alive /\ file = NoFile /\ disk = RunnerDisk)

C22_Witness ==
    /\ NewReturned /\ Resolved
    /\ asked.install = "file" /\ last.ret = "DirectoryNotEmpty"
    /\ ~alive /\ file = NoFile

\* an allocator call has returned, having read the table
Allocated == found.fn # "none" /\ found.readable

\* the pair (a, b) of the prefix 127.a.b the call returned
FoundPair == <<found.prefix.a, found.prefix.b>>

FreePair(p) == ~InUse(used_ips, Prefix(127, p[1], p[2]))

\* the pairs from (first, first) on that come before p in ascending (a, b) order
Lower(p, first) ==
    {q \in (first..p[1]) \X (first..LastOctet) : q[1] < p[1] \/ q[2] < p[2]}

\* C23 as stated: the prefix 127.a.b an allocator returns is absent from the
\* in-use set, and every prefix before it in ascending (a, b) order over the
\* whole 127 block, 127.0.0 left out, is in use
C23_FirstFreeOfBlock ==
    Allocated /\ found.ret = "Ok" =>
        /\ FoundPair # <<0, 0>>
        /\ FreePair(FoundPair)
        /\ \A q \in Lower(FoundPair, 0) \ {<<0, 0>>} : ~FreePair(q)

\* the candidates of the allocator that was called
FoundCandidates ==
    IF found.fn = "sniff_ip_prefix" THEN Candidates(SniffFirst, FALSE)
    ELSE Candidates(FindFirst, TRUE)

\* C23: sniff_ip_prefix returns the first prefix 127.a.b absent from the in-use
\* set in ascending (a, b) order over a, b in 1..255, find_available_iprange the
\* first one over a, b in 0..255 with only 127.0.0 left out; neither returns a
\* prefix of the in-use set, and neither fails while a candidate is free
C23_FirstFreeCandidate ==
    Allocated =>
        IF found.ret = "Ok"
        THEN /\ FoundPair \in FoundCandidates
             /\ FreePair(FoundPair)
             /\ \A q \in Lower(FoundPair, IF found.fn = "sniff_ip_prefix"
                                          THEN SniffFirst ELSE FindFirst) :
                    q \in FoundCandidates => ~FreePair(q)
        ELSE \A q \in FoundCandidates : ~FreePair(q)

C23_Witness ==
    /\ Allocated /\ found.fn = "sniff_ip_prefix" /\ found.ret = "Ok"
    /\ FoundPair = <<1, 3>>
    /\ ~FreePair(<<1, 1>>) /\ ~FreePair(<<1, 2>>)

\* every candidate of the allocator that was called is in use
Exhausted == \A q \in FoundCandidates : ~FreePair(q)

\* C24 as stated: an allocator that finds every candidate in use returns its
\* error and no prefix, and the candidates it went through are 65025
C24_ExhaustedOf65025 ==
    Allocated /\ Exhausted =>
        /\ found.ret # "Ok" /\ found.prefix = NoPrefix
        /\ Cardinality(FoundCandidates) = 65025

\* C24: an allocator that finds every candidate in use returns its error and
\* no prefix; the candidates sniff_ip_prefix went through are 65025 (a and b
\* in 1..255), those of find_available_iprange 65535 (a and b in 0..255,
\* 127.0.0 left out)
C24_ExhaustedIsAnError ==
    Allocated /\ Exhausted =>
        /\ found.ret # "Ok" /\ found.prefix = NoPrefix
        /\ Cardinality(FoundCandidates)
             = IF found.fn = "sniff_ip_prefix" THEN 65025 ELSE 65535

C24_Witness ==
    /\ Allocated /\ found.fn = "sniff_ip_prefix"
    /\ Exhausted
    /\ found.ret = "RawOsError1"

(***************************************************************************)
(* Two LoggedCmd instances, and the end of one                             *)
(***************************************************************************)
\* variant: the counter is one static shared by every instance
FetchAddShared(o, r) == [other |-> FetchAddNew(o), run_id |-> FetchAddNew(r)]

\* self.run_id.fetch_add(1, SeqCst) on the second instance, whose counter is
\* o: the counter r of the first instance is another field
FetchAddOn(o, r) == [other |-> FetchAddNew(o), run_id |-> r]

\* run_command on a second LoggedCmd, one whose set_log_file was never called:
\* the fetch_add of lines 61-63, then the unwrap of line 67 panics
OtherCall ==
    /\ Len(other.ids) < MaxRuns
    /\ \E c \in {FetchAddOn(other.run_id, run_id)} :
          /\ other' = [run_id |-> c.other, ids |-> Append(other.ids, other.run_id)]
          /\ run_id' = c.run_id
    /\ UNCHANGED <<log_file, file, holders, disk, th, dr, ch, ids, opens>>
    /\ UNCHANGED <<nodes, destroyed, defaults, alive, calls, last, nops, fan>>
    /\ UNCHANGED <<install, used_ips, ip_prefix, found, sink, config, flat, asked, nodeVars>>

\* the sync_all calls made when a LoggedCmd goes out of scope: the type has no
\* Drop implementation (fn drop of lines 197-205 is an inherent method that
\* nothing calls), so its fields are dropped and the file handle is closed
DropGlue(s, f) == [discarded |-> TRUE, file |-> f, syncs |-> s.syncs]

\* the last holder lets the LoggedCmd go (drop(runner) in the tests); run_command
\* borrows the runner, so no run is in progress, and no task can call it again
Discard ==
    /\ AllIdle
    /\ ~sink.discarded
    /\ sink' = DropGlue(sink, file)
    /\ file' = NoFile
    /\ th' = [t \in Threads |-> [th[t] EXCEPT !.pc = "gone"]]
    /\ UNCHANGED <<log_file, run_id, holders, disk, dr, ch, ids, opens>>
    /\ UNCHANGED <<nodes, destroyed, defaults, alive, calls, last, nops, fan>>
    /\ UNCHANGED <<install, used_ips, ip_prefix, found, other, config, flat, asked, nodeVars>>

\* one task runs commands on a runner that its holder may let go, next to a
\* second LoggedCmd
PairNext ==
    \/ RunSteps({"t1"}, ConcOptions, ConcResults, {"a.log"})
    \/ OtherCall
    \/ Discard

PairSpec == Init /\ [][PairNext]_vars

\* C25: each of two LoggedCmd instances hands out the run ids 1, 2, ... of its
\* own, starting at 1, and a run on one of them leaves the counter of the other
\* as it was
C25_NumberingPerInstance ==
    /\ run_id = 1 /\ other.run_id = 1
    /\ [][/\ \A k \in 1..Len(ids') : ids'[k] = k
          /\ \A k \in 1..Len(other.ids') : other.ids'[k] = k
          /\ (other' # other => run_id' = run_id /\ ids' = ids)
          /\ (ids' # ids => other' = other)]_vars

C25_Witness ==
    /\ Len(ids) = 2 /\ Len(other.ids) = 1
    /\ run_id = 3 /\ other.run_id = 2

\* C26: a runner that was discarded while it had its log file open had
\* sync_all called on that file as part of the discard
C26_SyncedAtDiscard ==
    sink.discarded /\ sink.file # NoFile => sink.syncs > 0

(***************************************************************************)
(* ScyllaConfig::to_flat_string                                            *)
(***************************************************************************)
\* the keys of the maps, in the order sort() puts strings (byte by byte)
KeyNames == <<"a", "ab", "b", "c">>

\* the place of a key in that order
Rank(k) == CHOOSE i \in 1..Len(KeyNames) : KeyNames[i] = k

\* the values of the enum
CfgNull == [kind |-> "Null"]
CfgBool(b) == [kind |-> "Bool", b |-> b]
CfgInt(i) == [kind |-> "Int", i |-> i]
CfgString(str) == [kind |-> "String", s |-> str]
CfgMap(m) == [kind |-> "Map", map |-> m]

\* map.keys().collect(): the keys of the map in the order the HashMap
\* iterates, order being that of all key names
MapKeys(map, order) == SelectSeq(order, LAMBDA k : k \in DOMAIN map)

\* sorted_keys.sort()
RECURSIVE SortKeys(_)
SortKeys(q) ==
    IF q = <<>> THEN <<>>
    ELSE LET rest == SortKeys(Tail(q))
         IN SelectSeq(rest, LAMBDA k : Rank(k) < Rank(Head(q)))
              \o <<Head(q)>>
              \o SelectSeq(rest, LAMBDA k : Rank(k) >= Rank(Head(q)))

\* variant: the keys are taken in the order the HashMap iterates
UnsortedKeys(map, order) == MapKeys(map, order)

\* flatten_map, lines 92-94: the keys of a map, sorted
SortedKeys(map, order) == SortKeys(MapKeys(map, order))

\* lines 98-102
FullKey(prefix, key) == IF prefix = "" THEN key ELSE prefix \o "." \o key

\* lines 108-122: what format! puts after the colon
ValueText(value) ==
    CASE value.kind = "String" -> value.s
      [] value.kind = "Int" -> ToString(value.i)
      [] value.kind = "Bool" -> (IF value.b THEN "true" ELSE "false")
      [] value.kind = "Null" -> "null"

\* flatten_map, lines 96-132: the for loop over the keys left, what it pushes
RECURSIVE FlattenKeys(_, _, _, _)
FlattenKeys(map, prefix, order, keys) ==
    IF keys = <<>> THEN <<>>
    ELSE LET key == Head(keys)
             value == map[key]
             full_key == FullKey(prefix, key)
         IN (IF value.kind = "Map"
             THEN FlattenKeys(value.map, full_key, order, SortedKeys(value.map, order))
             ELSE <<full_key \o ":" \o ValueText(value)>>)
              \o FlattenKeys(map, prefix, order, Tail(keys))

\* flatten_map
FlattenMap(map, prefix, order) ==
    FlattenKeys(map, prefix, order, SortedKeys(map, order))

\* result.join(sep)
RECURSIVE Join(_, _)
Join(q, sep) ==
    IF q = <<>> THEN ""
    ELSE IF Len(q) = 1 THEN q[1]
    ELSE q[1] \o sep \o Join(Tail(q), sep)

\* to_flat_string, lines 135-138: the Vec of entries of a Map, none for any
\* other value
FlatEntries(cfg, order) ==
    IF cfg.kind = "Map" THEN FlattenMap(cfg.map, "", order) ELSE <<>>

\* a call of to_flat_string, the HashMaps iterating in some order
ToFlatStringCall(order) ==
    /\ ~flat.called
    /\ \E result \in {FlatEntries(config, order)} :
          flat' = [called |-> TRUE, result |-> result, text |-> Join(result, " ")]
    /\ UNCHANGED <<runnerVars, nodes, destroyed, defaults, alive, calls, last, nops, fan>>
    /\ UNCHANGED <<install, used_ips, ip_prefix, found, other, sink, config, asked, nodeVars>>

\* the orders a HashMap may iterate in: every order of the key names
Orders ==
    {o \in [1..Len(KeyNames) -> {KeyNames[i] : i \in 1..Len(KeyNames)}] :
        \A i, j \in 1..Len(KeyNames) : i # j => o[i] # o[j]}

\* maps from some of the keys of K to values of V
MapsOver(K, V) == UNION {[D -> V] : D \in SUBSET K}

\* the values to_flat_string is called on: a value that is no map, and maps of
\* up to two levels
InnerMaps == {CfgMap(m) : m \in MapsOver({"a", "b"}, {CfgInt(1), CfgBool(TRUE)})}

Configs ==
    {CfgNull, CfgInt(7)}
      \cup {CfgMap(m) : m \in MapsOver({"a", "ab", "c"},
                                       {CfgInt(1), CfgBool(TRUE), CfgString("v"), CfgNull}
                                         \cup InnerMaps)}

FlatSpecInit ==
    /\ RunnerInit
    /\ NoClusterYet
    /\ \E cfg \in Configs : HostWith("dir", Only({}), cfg)

FlatNext == \E order \in Orders : ToFlatStringCall(order)

FlatSpec == FlatSpecInit /\ [][FlatNext]_vars

\* the leaves of a map: the path of keys to each value that is no map
RECURSIVE Leaves(_)
Leaves(map) ==
    UNION {IF map[k].kind = "Map"
           THEN {[path |-> <<k>> \o e.path, value |-> e.value] : e \in Leaves(map[k].map)}
           ELSE {[path |-> <<k>>, value |-> map[k]]} : k \in DOMAIN map}

\* p comes before q when, at the first level where they differ, the key of p
\* is the smaller one
PathLess(p, q) ==
    \E i \in 1..Len(p) :
        /\ i <= Len(q)
        /\ \A j \in 1..(i - 1) : p[j] = q[j]
        /\ Rank(p[i]) < Rank(q[i])

\* the leaves of the value to_flat_string was called on, in that order
LeavesInOrder ==
    LET L == IF config.kind = "Map" THEN Leaves(config.map) ELSE {}
    IN [i \in 1..Cardinality(L) |->
          CHOOSE e \in L : Cardinality({d \in L : PathLess(d.path, e.path)}) = i - 1]

\* the map {a: {b: 1}, c: true}
NestedExample ==
    CfgMap([k \in {"a", "c"} |->
              IF k = "a" THEN CfgMap([j \in {"b"} |-> CfgInt(1)]) ELSE CfgBool(TRUE)])

RunAt(d, rid) == {i \in 1..Len(d) : d[i].rid = rid}

\* run rid was handed out and no task is inside the run_command that got it
Over(rid) == rid \in 1..Len(ids) /\ \A t \in Threads : th[t].rid = rid => th[t].pc = "idle"

\* C28: a run writes its exited line, and returns, only once its child has
\* exited and both of its drains have finished; and once the run_command of a
\* run id is over, no step appends a chunk of that run id to the log
C28_NothingAfterReturn ==
    /\ [](\A t \in Threads :
            th[t].pc = "exitedW" \/ ReturnedSpawned(t)
               => ch[t] = "exited" /\ \A s \in Streams : dr[t][s].pc = "done")
    /\ [][\A rid \in 1..Len(ids) :
             Over(rid) => RunAt(AllChunks', rid) = RunAt(AllChunks, rid)]_vars

\* a run with lines of both streams has returned, and the line the log ends
\* with, written after the exited line of that run, is one of another run that
\* goes on
C28_Witness ==
    \E t1, t2 \in Threads :
       /\ t1 # t2
       /\ ReturnedSpawned(t1)
       /\ At(AllChunks, th[t1].rid, "stdout", "tail") # {}
       /\ At(AllChunks, th[t1].rid, "stderr", "tail") # {}
       /\ th[t2].pc = "wait"
       /\ AllChunks[Len(AllChunks)].rid = th[t2].rid
       /\ AllChunks[Len(AllChunks)].tag \in Streams

\* C29: a run whose child was killed by a signal, so that its status has no
\* exit code, has written exactly one exited line, with the payload
\* "status = unknown", and returns CommandFailed when allow-failure is unset
\* (or false) and Ok when allow-failure is true
C29_SignalKilled ==
    \A t \in Threads :
       Returned(t) /\ th[t].status.kind = "signal" =>
          /\ Cardinality(At(RunData(t), th[t].rid, "exited", "head")) = 1
          /\ Cardinality(At(RunData(t), th[t].rid, "exited", "tail")) = 1
          /\ \A i \in At(RunData(t), th[t].rid, "exited", "tail") :
                RunData(t)[i].pay = "status = unknown"
          /\ th[t].allow \in {"unset", "false"} => th[t].ret = RetErr("CommandFailed")
          /\ th[t].allow = "true" => th[t].ret = RetOk(th[t].status)

\* a run allowed to fail has returned Ok after a signal killed its child
C29_Witness ==
    \E t \in Threads :
       /\ Returned(t)
       /\ th[t].status.kind = "signal"
       /\ th[t].allow = "true"
       /\ th[t].ret.kind = "Ok"

\* the tasks run commands concurrently, and the child of a run of t1 may write
\* one line more to each stream
OrderNext ==
    \/ RunSteps(Threads, ConcOptions, ConcResults, {"a.log"})
    \/ \E s \in Streams : DrainWriteUpTo("t1", s, MaxLines + 1)

OrderSpec == Init /\ [][OrderNext]_vars

\* C30: in the log, the lines of one stream of one run are the lines the child
\* wrote to that stream, in the order it wrote them (the k-th of them is the
\* k-th line written), whatever lines of the other stream and of other runs lie
\* between them
C30_StreamOrder ==
    \A rid \in 1..Len(ids), s \in Streams :
       LET at == At(AllChunks, rid, s, "tail")
       IN \A i \in at :
             AllChunks[i].pay = LineName(1 + Cardinality({j \in at : j < i}))

\* a run has two lines of each stream in the log, a stderr line between its
\* two stdout lines, and a line of another run between its stream lines
C30_Witness ==
    \E rid \in 1..Len(ids) :
       /\ Cardinality(At(AllChunks, rid, "stdout", "tail")) = 2
       /\ Cardinality(At(AllChunks, rid, "stderr", "tail")) = 2
       /\ \E i, k \in At(AllChunks, rid, "stdout", "tail") :
             /\ \E j \in At(AllChunks, rid, "stderr", "tail") : i < j /\ j < k
             /\ \E j \in 1..Len(AllChunks) :
                   i < j /\ j < k /\ AllChunks[j].rid \notin {0, rid}

(***************************************************************************)
(* Node::start: the command line of the start invocation                   *)
(***************************************************************************)
\* the start invocations the start call in progress has issued so far
StartIssued == SubSeq(calls, fan.before + 1, Len(calls))

\* C31: every start invocation of a Cluster::start call carries, after the
\* fixed arguments (--config-dir and the install directory), one switch per
\* option of the caller, in the order the caller gave them, duplicates
\* included; every node of the call gets the same sequence of switches
C31_StartSwitchesInOrder ==
    fan.op = "start" =>
       \A k \in 1..Len(StartIssued) :
          LET c == StartIssued[k]
          IN /\ c.cmd = "start"
             /\ c.target = nodes[k].name
             /\ Len(c.flags) = 2 + Len(fan.opts)
             /\ c.flags[1] = "--config-dir"
             /\ c.flags[2] = install
             /\ \A i \in 1..Len(fan.opts) :
                   c.flags[2 + i] = StartFlag(fan.opts[i])

\* a start call given an option twice has issued the invocation of two nodes
C31_Witness ==
    /\ fan.op = "start"
    /\ \E i, j \in 1..Len(fan.opts) : i < j /\ fan.opts[i] = fan.opts[j]
    /\ Len(StartIssued) = 2
    /\ StartIssued[1].flags = StartIssued[2].flags
    /\ Len(StartIssued[2].flags) = 5

(***************************************************************************)
(* Node::jmx_port and Node::debug_port: i32 arithmetic.  A build with      *)
(* overflow checks (the dev and test profiles) panics when a step leaves   *)
(* the i32 range; a build without them (the release profile) wraps.  The   *)
(* wrapped value is computed on the two 16-bit halves of the operands, so  *)
(* that no intermediate value leaves the range either.                     *)
(***************************************************************************)
I32Min == -I32Max - 1
Half == 65536

Lo(v) == v % Half
Hi(v) == (v \div Half) % Half

\* the i32 of two halves (two's complement)
FromHalves(h, l) == IF h >= Half \div 2 THEN (h - Half) * Half + l ELSE h * Half + l

\* a * k and a + b overflow i32 (k a small positive literal)
MulOverflows(a, k) == a > I32Max \div k \/ a < -(I32Max \div k)
AddOverflows(a, b) ==
    \/ b > 0 /\ a > I32Max - b
    \/ b < 0 /\ a < I32Min - b

\* i32::wrapping_mul and i32::wrapping_add
WrappingMul(a, k) ==
    LET l == Lo(a) * k
        h == Hi(a) * k + l \div Half
    IN FromHalves(h % Half, l % Half)

WrappingAdd(a, b) ==
    LET l == Lo(a) + Lo(b)
        h == Hi(a) + Hi(b) + l \div Half
    IN FromHalves(h % Half, l % Half)

\* what a port function returns: the port, or no value (the thread panicked)
PortValue(v) == [panic |-> FALSE, v |-> v]
PortPanic == [panic |-> TRUE, v |-> 0]

\* base + datacenter_id * 100 + node_id, evaluated left to right after the
\* product; checks: the build has overflow checks
PortFrom(base, n, checks) ==
    LET prod == WrappingMul(n.datacenter_id, 100)
        sum == WrappingAdd(base, prod)
        over == \/ MulOverflows(n.datacenter_id, 100)
                \/ AddOverflows(base, prod)
                \/ AddOverflows(sum, n.node_id)
    IN IF checks /\ over THEN PortPanic
       ELSE PortValue(WrappingAdd(sum, n.node_id))

\* Node::jmx_port, lines 67-69, and Node::debug_port, lines 71-73
JmxPort(n, checks) == PortFrom(7000, n, checks)
DebugPort(n, checks) == PortFrom(2000, n, checks)

\* the two port functions are called on node i of the collection (Node::init
\* calls them, lines 86-87)
PortsCall(i, checks) ==
    /\ alive
    /\ i \in 1..Len(nodes)
    /\ ports' = ports \cup {[node |-> i, checks |-> checks,
                             jmx |-> JmxPort(nodes[i], checks),
                             debug |-> DebugPort(nodes[i], checks)]}
    /\ UNCHANGED <<runnerVars, nodes, destroyed, defaults, alive, calls, last, nops, fan>>
    /\ UNCHANGED <<install, used_ips, ip_prefix, found, other, sink, config, flat, asked>>
    /\ UNCHANGED <<tuned, pipes, locks>>

\* the datacenter ids of add_node: small ones, the first one whose product
\* with 100 leaves the i32 range, and 2^30 + 1
WideDcs == {1, 2, 21474837, 1073741825}
WideDcArgs == {[some |-> TRUE, v |-> d] : d \in WideDcs}

PortSpecInit ==
    /\ RunnerInit
    /\ \E c \in NodeCounts : ClusterWith(NewNodes(<<>>, c, 1, 0))

PortNext ==
    \/ \E dcOpt \in WideDcArgs : AddNode(dcOpt)
    \/ \E i \in 1..MaxNodes, checks \in BOOLEAN : PortsCall(i, checks)

PortSpec == PortSpecInit /\ [][PortNext]_vars

\* C32: two distinct nodes of a Cluster whose node ids are at most 99 have
\* different JMX ports and different debug ports (ports of one build, whose
\* computation returned)
C32_PortsDistinct ==
    \A p, q \in ports :
       (/\ p.node # q.node
        /\ p.checks = q.checks
        /\ nodes[p.node].node_id <= 99 /\ nodes[q.node].node_id <= 99
        /\ ~p.jmx.panic /\ ~q.jmx.panic /\ ~p.debug.panic /\ ~q.debug.panic)
       => p.jmx.v # q.jmx.v /\ p.debug.v # q.debug.v

\* as long as no step of the port arithmetic leaves the i32 range, the ports
\* of two distinct nodes with ids of at most 99 differ
PortsDistinctInRange ==
    \A p, q \in ports :
       (/\ p.node # q.node
        /\ nodes[p.node].node_id <= 99 /\ nodes[q.node].node_id <= 99
        /\ ~JmxPort(nodes[p.node], TRUE).panic
        /\ ~JmxPort(nodes[q.node], TRUE).panic)
       => p.jmx.v # q.jmx.v /\ p.debug.v # q.debug.v

(***************************************************************************)
(* The default resource hints of a Cluster and the hints of its nodes      *)
(***************************************************************************)
\* Cluster::set_default_node_smp, lines 170-172
SetDefaultNodeSmp(smp) ==
    /\ CanOp
    /\ defaults' = [defaults EXCEPT !.smp = smp]
    /\ tuned' = tuned \cup {"smp"}
    /\ nops' = nops + 1
    /\ UNCHANGED <<nodes, destroyed, alive, calls>>
    /\ last' = OpRecord("set_default_node_smp", "Ok", destroyed, Len(calls))
    /\ UNCHANGED <<runnerVars, fan>>
    /\ UNCHANGED <<install, used_ips, ip_prefix, found, other, sink, config, flat, asked>>
    /\ UNCHANGED <<ports, pipes, locks>>

\* Cluster::set_default_node_memory, lines 166-168
SetDefaultNodeMemory(memory) ==
    /\ CanOp
    /\ defaults' = [defaults EXCEPT !.memory = memory]
    /\ tuned' = tuned \cup {"memory"}
    /\ nops' = nops + 1
    /\ UNCHANGED <<nodes, destroyed, alive, calls>>
    /\ last' = OpRecord("set_default_node_memory", "Ok", destroyed, Len(calls))
    /\ UNCHANGED <<runnerVars, fan>>
    /\ UNCHANGED <<install, used_ips, ip_prefix, found, other, sink, config, flat, asked>>
    /\ UNCHANGED <<ports, pipes, locks>>

\* the core counts and the memory hints (MB; 0: unset) a caller sets
SmpArgs == {1, 2, 4}
MemoryArgs == {0, 1024}

HintNext ==
    \/ \E smp \in SmpArgs : SetDefaultNodeSmp(smp)
    \/ \E memory \in MemoryArgs : SetDefaultNodeMemory(memory)
    \/ \E dcOpt \in DcArgs : AddNode(dcOpt)

HintSpecInit ==
    /\ RunnerInit
    /\ \E c \in {<<>>, <<1>>} : ClusterWith(NewNodes(<<>>, c, 1, 0))

HintSpec == HintSpecInit /\ [][HintNext]_vars

\* C33: as long as the caller has not set the default memory of the Cluster,
\* every node of it has a memory hint of 512 times its core count, also a node
\* added after the default core count was set
C33_MemoryFollowsSmp ==
    "memory" \notin tuned =>
       \A i \in 1..Len(nodes) : nodes[i].memory = 512 * nodes[i].smp

\* Node::new, line 59: a node built from a default memory of 0 has 512 times
\* its core count, any other default memory is taken as it is; and the default
\* memory of a Cluster is 512 until the caller sets it
MemoryAsPassed ==
    /\ \A i \in 1..Len(nodes) :
          nodes[i].memory \in {512 * nodes[i].smp, 512, 1024}
    /\ defaults.memory = 0 /\ last.op = "add_node"
          => nodes[Len(nodes)].memory = 512 * defaults.smp
    /\ "memory" \notin tuned => defaults.memory = DEFAULT_MEMORY

(***************************************************************************)
(* Cluster::add_node: what a call changes                                  *)
(***************************************************************************)
\* C34: a call of add_node appends exactly one node, ACTIVE and in the
\* datacenter given (1 when none is given), at the end of the collection;
\* it issues no external invocation and leaves every node the collection had
\* (datacenter id, node id, status, position) and the destroyed flag as they
\* were
C34_AddNodeFrame ==
    [][\A dcOpt \in DcArgs :
          AddNode(dcOpt) =>
             /\ Len(nodes') = Len(nodes) + 1
             /\ nodes'[Len(nodes')].status = "ACTIVE"
             /\ nodes'[Len(nodes')].datacenter_id = (IF dcOpt.some THEN dcOpt.v ELSE 1)
             /\ \A i \in 1..Len(nodes) :
                   /\ nodes'[i].datacenter_id = nodes[i].datacenter_id
                   /\ nodes'[i].node_id = nodes[i].node_id
                   /\ nodes'[i].status = nodes[i].status
             /\ calls' = calls
             /\ destroyed' = destroyed]_vars

\* add_node has returned on a destroyed Cluster that held a DELETED node: the
\* new node is ACTIVE and last, the old one is still DELETED and first
C34_Witness ==
    /\ last.op = "add_node"
    /\ destroyed
    /\ Len(nodes) = 2
    /\ nodes[1].status = "DELETED"
    /\ nodes[2].status = "ACTIVE"
    /\ calls # <<>>

(***************************************************************************)
(* Cluster::init: the create invocation fails                              *)
(***************************************************************************)
\* the create invocation of the init call in progress has returned an error
CreateFailed == fan.op = "init" /\ 1 \in fan.errs

\* C36: once the create invocation of an init call has failed, the call has
\* issued the create invocation and nothing else, it issues no add invocation
\* for any node, and it returns the error
C36_CreateFailureEndsInit ==
    /\ [](CreateFailed =>
             /\ Len(calls) = fan.before + 1
             /\ calls[Len(calls)] = Invocation("create", ClusterName, <<>>))
    /\ [][CreateFailed =>
             /\ calls' = calls
             /\ fan'.op = "idle" => last'.op = "init" /\ last'.ret = "Err"
                                    /\ last'.issued = 1]_vars

\* init has returned the error of its create invocation, the only invocation
\* it issued, on a Cluster of two nodes
C36_Witness ==
    /\ fan.op = "idle"
    /\ last.op = "init" /\ last.ret = "Err" /\ last.issued = 1
    /\ Len(nodes) = 2
    /\ calls[Len(calls)].cmd = "create"
    /\ \A k \in 1..Len(calls) : calls[k].cmd # "add"

(***************************************************************************)
(* run_command: the run id of a run whose spawn failed                     *)
(***************************************************************************)
\* run_command has returned the spawn error to task t
SpawnFailedFor(t) == Returned(t) /\ th[t].ret.err = "SpawnFailed"

\* C37: a run whose spawn failed keeps its run id: the counter stays past it,
\* the id was handed out once and to no other run, the log holds nothing of
\* that id but env lines, and the next run of the runner gets the id after it
C37_FailedSpawnKeepsId ==
    /\ [](\A t \in Threads :
             SpawnFailedFor(t) =>
                /\ run_id > th[t].rid
                /\ Cardinality({i \in 1..Len(ids) : ids[i] = th[t].rid}) = 1
                /\ \A i \in 1..Len(AllChunks) :
                      AllChunks[i].rid = th[t].rid => AllChunks[i].tag = "env")
    /\ [][\A t \in Threads :
             SpawnFailedFor(t) /\ th'[t] # th[t] =>
                /\ th'[t].rid = th[t].rid + 1
                /\ ids' = Append(ids, th[t].rid + 1)]_vars

\* the spawn of run 1 failed after its env line was written, and run 2 has
\* its started line in the log
C37_Witness ==
    /\ ids = <<1, 2>>
    /\ At(AllChunks, 1, "env", "tail") # {}
    /\ At(AllChunks, 1, "started", "head") = {}
    /\ At(AllChunks, 2, "started", "tail") # {}

(***************************************************************************)
(* Node ids after a delete                                                 *)
(***************************************************************************)
\* the positions of the nodes a caller deletes: the first node, and the
\* nodes added to a datacenter that is full or nearly so
DeleteArgs == {1, LastNodeId, LastNodeId + 1, LastNodeId + 2}

RecycleNext ==
    \/ \E dcOpt \in DcArgs : AddNodeOp(dcOpt)
    \/ \E i \in DeleteArgs, ok \in BOOLEAN : NodeDelete(i, ok)

RecycleSpec == IdSpecInit /\ [][RecycleNext]_vars

\* the (datacenter id, node id) of a node
Place(n) == <<n.datacenter_id, n.node_id>>

\* C38: the collection only grows, every node, ACTIVE or DELETED, keeps its
\* datacenter id and node id, and a node that is added never gets the
\* (datacenter id, node id) of a DELETED node
C38_IdsNotRecycled ==
    [][/\ Len(nodes') >= Len(nodes)
       /\ \A i \in 1..Len(nodes) : Place(nodes'[i]) = Place(nodes[i])
       /\ \A j \in (Len(nodes) + 1)..Len(nodes') :
             \A i \in 1..Len(nodes) :
                nodes[i].status = "DELETED" => Place(nodes'[j]) # Place(nodes[i])]_vars

\* the same for the DELETED nodes whose id is one of 1..255: the id of such a
\* node is never given to a node that is added
IdsNotRecycledInRange ==
    [][/\ Len(nodes') >= Len(nodes)
       /\ \A i \in 1..Len(nodes) : Place(nodes'[i]) = Place(nodes[i])
       /\ \A j \in (Len(nodes) + 1)..Len(nodes') :
             \A i \in 1..Len(nodes) :
                nodes[i].status = "DELETED" /\ nodes[i].node_id <= LastNodeId
                   => Place(nodes'[j]) # Place(nodes[i])]_vars

(***************************************************************************)
(* The destroyed flag and the operations that do not read it               *)
(***************************************************************************)
\* C39: init and start do not read the destroyed flag: a call that returns Ok,
\* on a destroyed Cluster as on any other, has issued the create invocation
\* and one add invocation per node (init), one start invocation per node
\* (start); and a destroy call changes the status of no node
C39_DestroyedNotConsulted ==
    /\ [](last.op = "init" /\ last.ret = "Ok" =>
             /\ last.issued = 1 + Len(nodes)
             /\ Does(LastIssued[1], "create", ClusterName)
             /\ \A k \in 1..Len(nodes) : Does(LastIssued[k + 1], "add", nodes[k].name))
    /\ [](last.op = "start" /\ last.ret = "Ok" =>
             /\ last.issued = Len(nodes)
             /\ \A k \in 1..Len(nodes) : Does(LastIssued[k], "start", nodes[k].name))
    /\ [][last'.op = "destroy" /\ nops' # nops =>
             /\ Len(nodes') = Len(nodes)
             /\ \A i \in 1..Len(nodes) : nodes'[i].status = nodes[i].status]_vars

\* start has returned Ok on a Cluster that a successful destroy had marked
\* destroyed: it issued the start invocation of both nodes, which are ACTIVE
C39_Witness ==
    /\ last.op = "start" /\ last.was /\ last.ret = "Ok"
    /\ destroyed
    /\ Len(nodes) = 2
    /\ last.issued = 2
    /\ \A i \in 1..Len(nodes) : nodes[i].status = "ACTIVE"

\* init has returned Ok on a destroyed Cluster of two nodes
InitOnDestroyed ==
    /\ last.op = "init" /\ last.was /\ last.ret = "Ok"
    /\ last.issued = 3

(***************************************************************************)
(* A run whose child writes through pipes of bounded capacity: the child   *)
(* blocks in write when a pipe is full, and it exits, closing both pipes,  *)
(* when it has written all its output                                      *)
(***************************************************************************)
\* the lines a pipe holds before a write to it blocks
PipeCap == 1
\* the most lines a child writes to one stream
MaxOut == 3

\* variant: the streams are read only once child.wait() has returned
DrainRunsAfterWait(t) == ch[t] = "exited"

\* lines 106-117: the two stream_reader futures are handed to tokio::spawn
\* before child.wait() is awaited: they run whatever run_command waits for
DrainRuns(t) == dr[t] # [s \in Streams |-> NoDrain]

\* line 90: cmd.spawn() succeeds; out: the lines the child will write
SpawnPiped(t, out) ==
    /\ th[t].pc = "spawn"
    /\ th' = [th EXCEPT ![t].pc = "started", ![t].spawnPos = Len(disk[th[t].writer].data)]
    /\ ch' = [ch EXCEPT ![t] = "running"]
    /\ pipes' = [pipes EXCEPT ![t] = [s \in Streams |-> [left |-> out[s], buf |-> 0]]]
    /\ UNCHANGED <<log_file, file, run_id, holders, disk, dr, ids, opens>>
    /\ UNCHANGED <<nodes, destroyed, defaults, alive, calls, last, nops, fan>>
    /\ UNCHANGED <<install, used_ips, ip_prefix, found, other, sink, config, flat, asked>>
    /\ UNCHANGED <<ports, tuned, locks>>

\* the child writes a line to a pipe that is not full
ChildWrite(t, s) ==
    /\ ch[t] = "running"
    /\ pipes[t][s].left > 0
    /\ pipes[t][s].buf < PipeCap
    /\ pipes' = [pipes EXCEPT ![t][s].left = @ - 1, ![t][s].buf = @ + 1]
    /\ UNCHANGED <<runnerVars, nodes, destroyed, defaults, alive, calls, last, nops, fan>>
    /\ UNCHANGED <<install, used_ips, ip_prefix, found, other, sink, config, flat, asked>>
    /\ UNCHANGED <<ports, tuned, locks>>

\* the child has written all its output: it exits and its pipes are closed
ChildExitPiped(t) ==
    /\ \A s \in Streams : pipes[t][s].left = 0
    /\ ChildExit(t)

\* stream_reader, lines 186-193: next_line yields a line of the pipe, the
\* guard of the mutex is taken and write_all begins
DrainLine(t, s) ==
    /\ DrainRuns(t)
    /\ dr[t][s].pc = "read"
    /\ pipes[t][s].buf > 0
    /\ LockFree
    /\ holders' = holders \cup {<<t, s>>}
    /\ disk' = AppendChunk(disk, th[t].writer,
                 Chunk(th[t].rid, s, LineName(NextLine(dr[t][s].n)), "head"))
    /\ dr' = [dr EXCEPT ![t][s].pc = "writing", ![t][s].n = @ + 1]
    /\ pipes' = [pipes EXCEPT ![t][s].buf = @ - 1]
    /\ UNCHANGED <<log_file, file, run_id, th, ch, ids, opens>>
    /\ UNCHANGED <<nodes, destroyed, defaults, alive, calls, last, nops, fan>>
    /\ UNCHANGED <<install, used_ips, ip_prefix, found, other, sink, config, flat, asked>>
    /\ UNCHANGED <<ports, tuned, locks>>

\* next_line yields None: the pipe is empty and its write end is closed
DrainEofPiped(t, s) ==
    /\ DrainRuns(t)
    /\ pipes[t][s].buf = 0
    /\ DrainEof(t, s)

\* the lines a child writes to its two streams
Outputs == [Streams -> 0..MaxOut]

\* the first run_command call on the runner
FirstCall(t, o) ==
    /\ ids = <<>>
    /\ Call(t, o.env, o.allow)

\* one task runs a command, whose child writes through pipes
PipeNext ==
    \/ \E ok \in BOOLEAN : SetLogFile("a.log", ok)
    \/ \E o \in ConcOptions : FirstCall("t1", o)
    \/ SpawnFail("t1")
    \/ \E out \in Outputs : SpawnPiped("t1", out)
    \/ StartedBegin("t1")
    \/ StartedEnd("t1")
    \/ \E s \in Streams : ChildWrite("t1", s)
    \/ ChildExitPiped("t1")
    \/ \E s \in Streams : DrainLine("t1", s)
    \/ \E s \in Streams : DrainWriteEnd("t1", s)
    \/ \E s \in Streams : DrainEofPiped("t1", s)
    \/ \E result \in ConcResults : ExitedBegin("t1", result)
    \/ ExitedEnd("t1")

\* the scheduling: the runtime polls every task that can go on (the task of
\* run_command and the two spawned stream_reader tasks), the tokio mutex
\* hands the guard to its waiters in turn, and the child, a process of its
\* own, writes when its pipe has room and exits when it has written all
PipeFair ==
    /\ WF_vars(StartedBegin("t1")) /\ WF_vars(StartedEnd("t1"))
    /\ WF_vars((\E s \in Streams : ChildWrite("t1", s)) \/ ChildExitPiped("t1"))
    /\ \A s \in Streams :
          /\ SF_vars(DrainLine("t1", s))
          /\ WF_vars(DrainWriteEnd("t1", s))
          /\ WF_vars(DrainEofPiped("t1", s))
    /\ SF_vars(\E result \in ConcResults : ExitedBegin("t1", result))
    /\ WF_vars(ExitedEnd("t1"))

PipeSpec == Init /\ [][PipeNext]_vars /\ PipeFair

\* C40: a run whose child was spawned returns, whatever number of lines the
\* child writes to either stream, more than its pipe holds or not: the child
\* gets to write all of them and to exit, and once it has exited and its pipes
\* are closed the run returns
C40_RunTerminates ==
    /\ (th["t1"].pc = "started") ~> Returned("t1")
    /\ (ch["t1"] = "exited" /\ th["t1"].pc = "wait") ~> Returned("t1")

\* a run has returned whose child wrote to stdout more lines than the pipe
\* holds, all of them in the log, and nothing to stderr
C40_Witness ==
    /\ Returned("t1")
    /\ Cardinality(At(AllChunks, th["t1"].rid, "stdout", "tail")) = MaxOut
    /\ At(AllChunks, th["t1"].rid, "stderr", "tail") = {}
    /\ MaxOut > PipeCap

(***************************************************************************)
(* The RwLock of each node (Cluster.nodes: Vec<Arc<RwLock<Node>>>): a      *)
(* delete holds the write guard of its node while its remove invocation    *)
(* is in flight; a reader holds the read guard of the node it reads        *)
(***************************************************************************)
\* variant: one RwLock guards the whole collection
LockOfAll(i) == 1

\* line 140: every node is behind an RwLock of its own
LockOf(i) == i

\* the delete of node i holds its write guard
Deleting(i) == locks.write[LockOf(i)] = i

\* a read guard, a write guard is held on the lock of node i
ReadHeld(i) == \E r \in Readers : locks.read[r].node # 0
                                  /\ LockOf(locks.read[r].node) = LockOf(i)
WriteHeld(i) == locks.write[LockOf(i)] # 0

\* node.write().await returns the write guard and Node::delete, line 128,
\* issues its remove invocation
DeleteBegin(i) ==
    /\ CanOp
    /\ i \in 1..Len(nodes)
    /\ ~WriteHeld(i) /\ ~ReadHeld(i)
    /\ locks' = [locks EXCEPT !.write[LockOf(i)] = i]
    /\ calls' = Append(calls, Invocation("remove", nodes[i].name, <<>>))
    /\ nops' = nops + 1
    /\ UNCHANGED <<nodes, destroyed, defaults, alive, last>>
    /\ UNCHANGED <<runnerVars, fan>>
    /\ UNCHANGED <<install, used_ips, ip_prefix, found, other, sink, config, flat, asked>>
    /\ UNCHANGED <<ports, tuned, pipes>>

\* the remove invocation returns, lines 128-130; the write guard is dropped
DeleteEnd(i, ok) ==
    /\ i \in 1..Len(nodes)
    /\ Deleting(i)
    /\ nodes' = [nodes EXCEPT ![i].status = DeletedStatus(@, ok)]
    /\ locks' = [locks EXCEPT !.write[LockOf(i)] = 0]
    /\ UNCHANGED <<destroyed, defaults, alive, calls, nops>>
    /\ last' = OpRecord("delete", Result(ok), destroyed, Len(calls) - 1)
    /\ UNCHANGED <<runnerVars, fan>>
    /\ UNCHANGED <<install, used_ips, ip_prefix, found, other, sink, config, flat, asked>>
    /\ UNCHANGED <<ports, tuned, pipes>>

\* node.read().await (lines 214, 328, 337) returns the read guard of node j
ReadBegin(r, j) ==
    /\ alive
    /\ j \in 1..Len(nodes)
    /\ locks.read[r].node = 0
    /\ ~WriteHeld(j)
    /\ locks' = [locks EXCEPT !.read[r] =
                    [node |-> j, during |-> \E i \in 1..Len(nodes) : Deleting(i)]]
    /\ UNCHANGED <<runnerVars, nodes, destroyed, defaults, alive, calls, last, nops, fan>>
    /\ UNCHANGED <<install, used_ips, ip_prefix, found, other, sink, config, flat, asked>>
    /\ UNCHANGED <<ports, tuned, pipes>>

\* the read guard is dropped
ReadEnd(r) ==
    /\ locks.read[r].node # 0
    /\ locks' = [locks EXCEPT !.read[r] = [node |-> 0, during |-> FALSE]]
    /\ UNCHANGED <<runnerVars, nodes, destroyed, defaults, alive, calls, last, nops, fan>>
    /\ UNCHANGED <<install, used_ips, ip_prefix, found, other, sink, config, flat, asked>>
    /\ UNCHANGED <<ports, tuned, pipes>>

LockNext ==
    \/ \E i \in 1..MaxNodes : DeleteBegin(i)
    \/ \E i \in 1..MaxNodes, ok \in BOOLEAN : DeleteEnd(i, ok)
    \/ \E r \in Readers, j \in 1..MaxNodes : ReadBegin(r, j)
    \/ \E r \in Readers : ReadEnd(r)

LockSpec == ClusterSpecInit /\ [][LockNext]_vars

====
